---- MODULE Spec2Model ----
(***************************************************************************)
(* Model of the stock ledger of the Product Catalog API: the inventory     *)
(* update route (validation rules, then the updateInventory controller),   *)
(* the Variant collection's stockQuantity and the InventoryTransaction     *)
(* collection (the ledger).                                                *)
(*                                                                         *)
(* updateInventory is an async function: it runs to its next await in one  *)
(* step, and other requests run between its awaits.  Its three awaits are  *)
(* Variant.findById, InventoryTransaction.create and variantToUpdate.save, *)
(* so one request is three steps: FindVariant (the read and the            *)
(* synchronous checks and computation that follow it), CreateTransaction   *)
(* (the ledger insert) and SaveVariant (the validated write of the         *)
(* variant and the response).                                              *)
(*                                                                         *)
(* The read side (the ledger queries, the stock-level view, the reports)   *)
(* and deleteProduct are further requests, each one step per await.        *)
(***************************************************************************)
EXTENDS Integers, Sequences, FiniteSets, TLC

\* ---------------------------------------------------------------- bounds
\* Number of updateInventory requests of one run.
NReq == 2
\* Concurrent catalog write requests (product and category routes).
NClients == 2
\* Request quantities range over -MaxQty .. MaxQty.
MaxQty == 1
\* Initial stock of a variant ranges over 0 .. MaxQ0.
MaxQ0 == 2
\* Largest N of the run of N concurrent stock_out requests.
MaxN == 3
\* The clock runs over 0 .. MaxClock.
MaxClock == 2
\* Query parameters page and limit range over 0 .. MaxPage and 0 .. MaxLimit
\* (0: the parameter is absent).
MaxPage == 2
MaxLimit == 2
\* A variant's lowStockThreshold ranges over 0 .. MaxThreshold, its price
\* over 0 .. MaxPrice.
MaxThreshold == 1
MaxPrice == 2

Requests == 1..NReq
Quantities == (0 - MaxQty)..MaxQty

\* ------------------------------------------------------------- the stores
\* The stored variants and the product each belongs to (Variant.product).
Variants == {"v1", "v2"}
Products == {"p1", "p2"}
\* A third variant, of product p1, stored in the runs of the stock-level
\* view and the low-stock report.
AllVariants == Variants \cup {"v3"}
\* The _ids the database gives the documents that requests 1, 2, ... insert:
\* never used before.  A new variant is a variant of p1.
NewVariantIds == <<"v3", "v4", "v5">>
NewProductIds == <<"p3", "p4", "p5">>
NewCategoryIds == <<"c3", "c4", "c5">>
VariantProduct ==
  [v \in AllVariants \cup {NewVariantIds[i] : i \in DOMAIN NewVariantIds} |->
     IF v = "v2" THEN "p2" ELSE "p1"]
\* A well-formed id under which no variant is stored.
MissingVariant == "v0"
VariantIds == Variants \cup {MissingVariant}

\* InventoryTransaction.type: the schema's enum.
TransactionTypes == {"stock_in", "stock_out", "adjustment", "returned"}
\* A type outside the enum, as a client may send it.
OtherType == "transfer"

\* The request bodies a client may send (req.body); quantity is a JSON
\* number.
Bodies == [variant : VariantIds, product : Products,
           type : TransactionTypes \cup {OtherType}, quantity : Quantities]
NoBody == [variant |-> "none", product |-> "none", type |-> "none", quantity |-> 0]

VARIABLES
  stock,            \* stock[v]: the stored Variant.stockQuantity
  initialQuantity,  \* initialQuantity[v]: stock[v] at the start (never changes)
  ledger,           \* the InventoryTransaction collection, in creation order
  pc,               \* pc[r]: where request r is
  body,             \* body[r]: req.body of request r
  previousQuantity, \* previousQuantity[r]: the local of updateInventory
  newQuantity,      \* newQuantity[r]: the local of updateInventory
  readVersion,      \* readVersion[r]: how many requests had committed on the
                    \* variant when r read it (history, for the lost update)
  response,         \* response[r]: the response sent (status and message),
                    \* NoResponse if none
  now,              \* the clock (Date.now()), in ticks
  products,         \* the ids of the stored products
  productInfo,      \* productInfo[p]: isActive, hasVariants and categories
  categoryInfo,     \* categoryInfo[c]: isActive, name and parent of the
                    \* stored categories
  variantInfo,      \* variantInfo[v]: lowStockThreshold, price and isActive
  productSku,       \* productSku[p]: Product.sku
  variantSku,       \* variantSku[v]: Variant.sku
  rpc,              \* where the read request (query or report) is
  rreq,             \* its route and parameters
  rpart,            \* what its first await returned
  rres,             \* its response
  dpc,              \* where the deleteProduct request is
  dproduct,         \* its req.params.id
  dres,             \* its response
  wpc,              \* wpc[c]: where catalog write request c is
  wreq,             \* wreq[c]: its route, req.params.id and req.body
  wproduct,         \* wproduct[c]: the document its findById returned
  wres              \* wres[c]: its response

inventoryVars == <<stock, initialQuantity, ledger, pc, body, previousQuantity,
                   newQuantity, readVersion, response>>
catalogVars == <<products, productInfo, categoryInfo, variantInfo, productSku,
                 variantSku>>
readerVars == <<rpc, rreq, rpart, rres>>
deleterVars == <<dpc, dproduct, dres>>
writerVars == <<wpc, wreq, wproduct, wres>>
vars == <<inventoryVars, now, catalogVars, readerVars, deleterVars, writerVars>>

\* ---------------------------------------------------------------- helpers
Abs(x) == IF x < 0 THEN 0 - x ELSE x

NoResponse == [status |-> 0, message |-> ""]

\* Mutant of ErrorHandler: the status the controller set is ignored.
ErrorHandlerKeepsStatus(statusCode, message) ==
  [status |-> statusCode, message |-> message]

ErrorHandlerAlways500(statusCode, message) == [status |-> 500, message |-> message]

\* app.js errorHandler, called with the thrown error's message and
\* res.statusCode (200 unless the controller set it before throwing).
ErrorHandler(statusCode, message) ==
  [status |-> IF statusCode = 200 THEN 500 ELSE statusCode, message |-> message]

\* res.status(201).json({success: true, data: ...}).
Success == [status |-> 201, message |-> ""]

\* validators.js, body('type').isIn([...]).
ValidType(b) == b.type \in TransactionTypes

\* Mutant of ValidQuantity: the sign rule left out.
ValidQuantityNoSignRule(b) == TRUE

\* validators.js, body('quantity').custom(...): the sign rule.
ValidQuantity(b) ==
  IF b.type = "stock_out" /\ b.quantity > 0 THEN FALSE
  ELSE IF b.type = "stock_in" /\ b.quantity < 0 THEN FALSE
  ELSE TRUE

\* inventoryTransactionValidationRules: every rule passes.
PassesValidation(b) == ValidType(b) /\ ValidQuantity(b)

\* The message of the rule that failed.
ValidationMessage(b) ==
  IF ~ValidType(b) THEN "Invalid transaction type"
  ELSE "Quantity should be positive for stock_in and negative for stock_out"

\* validateRequest: a request with a failed rule is answered 400 with the
\* rule's message and does not reach the controller.
ValidateRequest(b) == [status |-> 400, message |-> ValidationMessage(b)]

\* Mutant of NewQuantity: stock_out without Math.abs.
NewQuantityNoAbs(type, previous, quantity) ==
  CASE type = "stock_in"   -> previous + quantity
    [] type = "stock_out"  -> previous - quantity
    [] type = "adjustment" -> quantity
    [] type = "returned"   -> previous + quantity
    [] OTHER               -> previous

\* updateInventory, the switch: the new stock quantity.
NewQuantity(type, previous, quantity) ==
  CASE type = "stock_in"   -> previous + quantity
    [] type = "stock_out"  -> previous - Abs(quantity)
    [] type = "adjustment" -> quantity
    [] type = "returned"   -> previous + quantity
    [] OTHER               -> previous

\* Mutant of PersistedQuantity: the quantity stored as given for every type.
PersistedQuantityAsGiven(type, previous, quantity) == quantity

\* updateInventory, the quantity field given to InventoryTransaction.create.
PersistedQuantity(type, previous, quantity) ==
  IF type = "adjustment" THEN quantity - previous ELSE quantity

\* Mutant of Precondition: the check that the variant belongs to the product
\* left out.
PreconditionNoProductCheck(b) ==
  IF b.variant \notin DOMAIN stock THEN [status |-> 404, message |-> "Variant not found"]
  ELSE IF b.type = "stock_out" /\ stock[b.variant] - Abs(b.quantity) < 0
    THEN [status |-> 400, message |-> "Insufficient stock quantity"]
  ELSE [status |-> 0, message |-> ""]

\* updateInventory, lines 17-53: what the checks throw, in the order they
\* run (res.status and the Error's message); Passed if none throws.
Passed == [status |-> 0, message |-> ""]
Thrown(statusCode, message) == [status |-> statusCode, message |-> message]
\* Mutant of Precondition: the type looked at before the variant.
PreconditionTypeFirst(b) ==
  IF b.type \notin TransactionTypes THEN Thrown(400, "Invalid transaction type")
  ELSE IF b.variant \notin DOMAIN stock THEN Thrown(404, "Variant not found")
  ELSE IF VariantProduct[b.variant] # b.product
    THEN Thrown(400, "Variant does not belong to the specified product")
  ELSE IF b.type = "stock_out" /\ NewQuantity(b.type, stock[b.variant], b.quantity) < 0
    THEN Thrown(400, "Insufficient stock quantity")
  ELSE Passed

Precondition(b) ==
  IF b.variant \notin DOMAIN stock THEN Thrown(404, "Variant not found")
  ELSE IF VariantProduct[b.variant] # b.product
    THEN Thrown(400, "Variant does not belong to the specified product")
  ELSE CASE b.type = "stock_in"   -> Passed
         [] b.type = "stock_out"  ->
              IF NewQuantity(b.type, stock[b.variant], b.quantity) < 0
              THEN Thrown(400, "Insufficient stock quantity") ELSE Passed
         [] b.type = "adjustment" -> Passed
         [] b.type = "returned"   -> Passed
         [] OTHER                 -> Thrown(400, "Invalid transaction type")

\* Mutant of SchemaAccepts: the schema without its minimum.
SchemaAcceptsAny(quantity) == TRUE

\* VariantSchema.stockQuantity: min [0, ...], checked by save().
SchemaAccepts(quantity) == quantity >= 0

\* The ledger entries of request r, and of variant v.
EntriesOf(r) == {i \in 1..Len(ledger) : ledger[i].req = r}
EntriesOfVariant(v) == {i \in 1..Len(ledger) : ledger[i].variant = v}

\* Request r answered 201: its ledger entry is stored and its save went through.
Committed(r) == pc[r] = "done" /\ response[r].status = 201
CommittedOn(v) ==
  {r \in DOMAIN pc : Committed(r) /\ \E i \in EntriesOf(r) : ledger[i].variant = v}

\* ------------------------------------------------------------------- Init
\* Variants.js: lowStockThreshold defaults to 5, isActive to true.
DefaultLowStockThreshold == 5
DefaultInfo == [lowStockThreshold |-> DefaultLowStockThreshold, price |-> 1,
                isActive |-> TRUE]

NoRead == [op |-> "", id |-> "", type |-> "", startDate |-> 0 - 1, endDate |-> 0 - 1,
           page |-> 0, limit |-> 0, lowStock |-> "", stockStatus |-> ""]
NoResult == [status |-> 0]

\* The catalog write requests (product and category routes), numbered in
\* the order they arrive.
Clients == 1..NClients
\* req.params.id and the fields of req.body the controllers look at; a
\* field the body leaves out is "unset".  The validation rules have
\* trimmed name and sku.
NoWrite == [op |-> "", id |-> "", sku |-> "", hasVariants |-> "unset",
            name |-> "", parent |-> "unset"]
\* findById returned nothing, or has not run.
NoDocument == [hasVariants |-> FALSE, name |-> ""]

\* No catalog write request has arrived.
InitWriter ==
  /\ wpc = [c \in Clients |-> "idle"]
  /\ wreq = [c \in Clients |-> NoWrite]
  /\ wproduct = [c \in Clients |-> NoDocument]
  /\ wres = [c \in Clients |-> NoResponse]

\* No read request and no deleteProduct request has arrived.
InitReader == rpc = "idle" /\ rreq = NoRead /\ rpart = NoResult /\ rres = NoResult
InitDeleter == dpc = "idle" /\ dproduct = "" /\ dres = NoResponse

\* The stored products and categories: both products are active and flagged
\* as having variants; p1 is in category c1, p2 in c1 and c2.
Categories == {"c1", "c2"}
InitialProducts ==
  [p \in Products |-> [isActive |-> TRUE, hasVariants |-> TRUE,
                        categories |-> IF p = "p1" THEN {"c1"} ELSE Categories]]
\* Category c1 is a root, c2 is its subcategory.
InitialCategories ==
  [c \in Categories |-> [isActive |-> TRUE,
                          name |-> IF c = "c1" THEN "n1" ELSE "n2",
                          parent |-> IF c = "c1" THEN "null" ELSE "c1"]]
\* Every stored product and variant has its own sku.
InitSkus ==
  /\ productSku = [p \in Products |-> IF p = "p1" THEN "s1" ELSE "s2"]
  /\ variantSku = [v \in AllVariants |->
                      IF v = "v1" THEN "s1" ELSE IF v = "v2" THEN "s2" ELSE "s3"]
InitCatalog ==
  /\ products = Products
  /\ productInfo = InitialProducts
  /\ categoryInfo = InitialCategories
  /\ InitSkus

\* The clock, the catalog and the other requests at the start of a run of
\* updateInventory requests.
InitOthers ==
  /\ now = 0
  /\ InitCatalog
  /\ variantInfo = [v \in AllVariants |-> DefaultInfo]
  /\ InitReader
  /\ InitDeleter
  /\ InitWriter

Init ==
  /\ initialQuantity \in [Variants -> 0..MaxQ0]
  /\ stock = initialQuantity
  /\ ledger = <<>>
  /\ pc = [r \in Requests |-> "idle"]
  /\ body = [r \in Requests |-> NoBody]
  /\ previousQuantity = [r \in Requests |-> 0]
  /\ newQuantity = [r \in Requests |-> 0]
  /\ readVersion = [r \in Requests |-> 0]
  /\ response = [r \in Requests |-> NoResponse]
  /\ InitOthers

\* Requests are numbered in the order they arrive.
Arrives(r) == pc[r] = "idle" /\ \A s \in DOMAIN pc : s < r => pc[s] # "idle"

\* ---------------------------------------------------------------- actions
\* POST /api/inventory/update with a body a validation rule rejects:
\* validateRequest answers 400, updateInventory does not run.
RejectInvalid(r, b) ==
  /\ Arrives(r)
  /\ ~PassesValidation(b)
  /\ pc' = [pc EXCEPT ![r] = "done"]
  /\ response' = [response EXCEPT ![r] = ValidateRequest(b)]
  /\ UNCHANGED <<stock, initialQuantity, ledger, body, previousQuantity,
                 newQuantity, readVersion>>
  /\ UNCHANGED <<now, catalogVars, readerVars, deleterVars, writerVars>>

\* updateInventory called with req.body = b, up to its second await:
\* Variant.findById resolves, the checks and the switch run; a failed check
\* throws, and errorHandler answers.
UpdateInventoryFind(r, b) ==
  /\ Arrives(r)
  /\ IF Precondition(b) # Passed
     THEN /\ pc' = [pc EXCEPT ![r] = "done"]
          /\ response' = [response EXCEPT ![r] =
                ErrorHandler(Precondition(b).status, Precondition(b).message)]
          /\ UNCHANGED <<body, previousQuantity, newQuantity, readVersion>>
     ELSE /\ pc' = [pc EXCEPT ![r] = "create"]
          /\ body' = [body EXCEPT ![r] = b]
          /\ previousQuantity' = [previousQuantity EXCEPT ![r] = stock[b.variant]]
          /\ newQuantity' = [newQuantity EXCEPT ![r] =
                               NewQuantity(b.type, stock[b.variant], b.quantity)]
          /\ readVersion' = [readVersion EXCEPT ![r] = Cardinality(CommittedOn(b.variant))]
          /\ UNCHANGED response
  /\ UNCHANGED <<stock, initialQuantity, ledger>>
  /\ UNCHANGED <<now, catalogVars, readerVars, deleterVars, writerVars>>

\* The inventory update route: updateInventory runs for a body that passed
\* the validation rules.
FindVariant(r, b) ==
  /\ PassesValidation(b)
  /\ UpdateInventoryFind(r, b)

\* The entry InventoryTransaction.create stores for request r.
Transaction(r) ==
  [req |-> r,
   variant |-> body[r].variant,
   product |-> body[r].product,
   type |-> body[r].type,
   quantity |-> PersistedQuantity(body[r].type, previousQuantity[r], body[r].quantity),
   previousQuantity |-> previousQuantity[r],
   newQuantity |-> newQuantity[r],
   createdAt |-> now]

\* await InventoryTransaction.create(...): the ledger insert.
CreateTransaction(r) ==
  /\ pc[r] = "create"
  /\ ledger' = Append(ledger, Transaction(r))
  /\ pc' = [pc EXCEPT ![r] = "save"]
  /\ UNCHANGED <<stock, initialQuantity, body, previousQuantity, newQuantity,
                 readVersion, response>>
  /\ UNCHANGED <<now, catalogVars, readerVars, deleterVars, writerVars>>

\* The stockQuantity stored by variantToUpdate.save() of request r.  The
\* document was loaded with previousQuantity; assigning an equal value leaves
\* the path unmodified, and save() writes modified paths only.
SavedQuantity(r) ==
  IF newQuantity[r] = previousQuantity[r] THEN stock[body[r].variant]
  ELSE newQuantity[r]

\* variantToUpdate.stockQuantity = newQuantity; await variantToUpdate.save();
\* then the 201 response.  save() validates first: a negative stockQuantity
\* is a ValidationError, nothing is written, and errorHandler answers 500.
\* When deleteProduct removed the variant since it was read, save() updates
\* no document: it writes nothing, and resolves or throws
\* DocumentNotFoundError depending on the mongoose version.
SaveVariant(r) ==
  /\ pc[r] = "save"
  /\ pc' = [pc EXCEPT ![r] = "done"]
  /\ IF ~SchemaAccepts(newQuantity[r])
     THEN /\ response' = [response EXCEPT ![r] =
                ErrorHandler(200, "Stock quantity cannot be negative")]
          /\ UNCHANGED stock
     ELSE IF body[r].variant \in DOMAIN stock
     THEN /\ stock' = [stock EXCEPT ![body[r].variant] = SavedQuantity(r)]
          /\ response' = [response EXCEPT ![r] = Success]
     ELSE /\ \E outcome \in {Success, ErrorHandler(200, "No document found")} :
               response' = [response EXCEPT ![r] = outcome]
          /\ UNCHANGED stock
  \* the request is over: its locals are gone
  /\ body' = [body EXCEPT ![r] = NoBody]
  /\ previousQuantity' = [previousQuantity EXCEPT ![r] = 0]
  /\ newQuantity' = [newQuantity EXCEPT ![r] = 0]
  /\ UNCHANGED <<initialQuantity, ledger, readVersion>>
  /\ UNCHANGED <<now, catalogVars, readerVars, deleterVars, writerVars>>

Next ==
  \/ \E r \in Requests, b \in Bodies : RejectInvalid(r, b)
  \/ \E r \in Requests, b \in Bodies : FindVariant(r, b)
  \/ \E r \in Requests : CreateTransaction(r)
  \/ \E r \in Requests : SaveVariant(r)

Spec == Init /\ [][Next]_vars

\* The same requests with every awaited database call returning: a request
\* that waits for InventoryTransaction.create or for save() goes on.
SpecLive ==
  /\ Init
  /\ [][Next]_vars
  /\ \A r \in Requests : WF_vars(CreateTransaction(r)) /\ WF_vars(SaveVariant(r))

\* updateInventory called directly, with any body: the controller's own
\* checks, without the route's validation middleware in front of it.
NextController ==
  \/ \E r \in Requests, b \in Bodies : UpdateInventoryFind(r, b)
  \/ \E r \in Requests : CreateTransaction(r)
  \/ \E r \in Requests : SaveVariant(r)

SpecController == Init /\ [][NextController]_vars

\* N concurrent stock_out requests of one unit against variant v1 holding N.
StockOutOne == [variant |-> "v1", product |-> "p1", type |-> "stock_out",
                quantity |-> 0 - 1]
StockOutRequests == 1..initialQuantity["v1"]

InitStockOut ==
  /\ initialQuantity \in [Variants -> 0..MaxN]
  /\ initialQuantity["v1"] >= 1
  /\ initialQuantity["v2"] <= MaxQ0
  /\ stock = initialQuantity
  /\ ledger = <<>>
  /\ pc = [r \in StockOutRequests |-> "idle"]
  /\ body = [r \in StockOutRequests |-> NoBody]
  /\ previousQuantity = [r \in StockOutRequests |-> 0]
  /\ newQuantity = [r \in StockOutRequests |-> 0]
  /\ readVersion = [r \in StockOutRequests |-> 0]
  /\ response = [r \in StockOutRequests |-> NoResponse]
  /\ InitOthers

NextStockOut ==
  \/ \E r \in StockOutRequests : FindVariant(r, StockOutOne)
  \/ \E r \in StockOutRequests : CreateTransaction(r)
  \/ \E r \in StockOutRequests : SaveVariant(r)

SpecStockOut == InitStockOut /\ [][NextStockOut]_vars

\* --------------------------------------------------------- ledger queries
\* The clock advances.  createdAt of an entry is the clock when it is created.
Tick ==
  /\ now < MaxClock
  /\ now' = now + 1
  /\ UNCHANGED <<inventoryVars, catalogVars, readerVars, deleterVars, writerVars>>

\* A day has TicksPerDay ticks; day d is d * TicksPerDay .. EndOfDay of it.
TicksPerDay == 2
NoDate == 0 - 1
Dates == 0..MaxClock

EndOfDayAsGiven(t) == t

\* const endDate = new Date(req.query.endDate);
\* endDate.setHours(23, 59, 59, 999): the last instant of the day of t.
EndOfDay(t) == (t \div TicksPerDay) * TicksPerDay + TicksPerDay - 1

\* parseInt(req.query.page, 10) || 1 and parseInt(req.query.limit, 10) || 20:
\* an absent parameter and 0 (here both 0) give the default.
DefaultPage == 1
DefaultLimit == 20
PageOf(q) == IF q.page = 0 THEN DefaultPage ELSE q.page
LimitOf(q) == IF q.limit = 0 THEN DefaultLimit ELSE q.limit
SkipOf(q) == (PageOf(q) - 1) * LimitOf(q)

\* Math.ceil(total / limit) for a positive limit.
Ceil(total, limit) == (total + limit - 1) \div limit

GeneratePaginationMetadata(page, limit, total) ==
  [page |-> page, limit |-> limit, totalItems |-> total,
   totalPages |-> Ceil(total, limit),
   hasNextPage |-> page < Ceil(total, limit),
   hasPrevPage |-> page > 1]

\* The three ledger queries: by product, by variant, over all entries.
LedgerOps == {"product", "variant", "all"}

\* The filter object built from the route and the query string, applied to
\* entry e.
TransactionFilter(q, e) ==
  /\ q.op = "product" => e.product = q.id
  /\ q.op = "variant" => e.variant = q.id
  /\ q.type # "" => e.type = q.type
  /\ q.startDate # NoDate => e.createdAt >= q.startDate
  /\ q.endDate # NoDate => e.createdAt <= EndOfDay(q.endDate)

MatchingTransactions(q) ==
  {i \in 1..Len(ledger) : TransactionFilter(q, ledger[i])}

\* InventoryTransaction.countDocuments(filter)
CountDocuments(q) == Cardinality(MatchingTransactions(q))

\* The orders an ascending sort by key can return the members of S in.  The
\* database leaves the order of equal keys open.  A descending sort is the
\* ascending sort by the negated key.
Orderings(S, key) ==
  {s \in [1..Cardinality(S) -> S] :
     \A i, j \in 1..Cardinality(S) :
        i < j => s[i] # s[j] /\ key[s[i]] <= key[s[j]]}

\* .skip(skip).limit(limit) of the sorted sequence s
SkipLimit(s, skip, limit) ==
  SubSeq(s, skip + 1, IF Len(s) < skip + limit THEN Len(s) ELSE skip + limit)

\* .populate(...): the reference of a document that is no longer stored
\* comes back as null.
Populate(e) ==
  [e EXCEPT !.variant = IF e.variant \in DOMAIN stock THEN e.variant ELSE "null",
            !.product = IF e.product \in products THEN e.product ELSE "null"]

\* InventoryTransaction.find(filter).skip(skip).limit(limit)
\*   .sort({ createdAt: -1 }).populate(...): the pages the query can return.
FindTransactionsPages(q) ==
  {[k \in 1..Len(page) |-> Populate(ledger[page[k]])] :
     page \in {SkipLimit(s, SkipOf(q), LimitOf(q)) :
                 s \in Orderings(MatchingTransactions(q),
                                 [i \in MatchingTransactions(q) |->
                                    0 - ledger[i].createdAt])}}

\* A ledger query up to its first await: the count under the filter.
CountTransactions(q) ==
  /\ rpc = "idle"
  /\ q.op \in LedgerOps
  /\ rreq' = q
  /\ rpart' = [total |-> CountDocuments(q)]
  /\ rpc' = "find"
  /\ UNCHANGED <<rres, inventoryVars, now, catalogVars, deleterVars, writerVars>>

\* The rest of the ledger query: the fetch of the page, the pagination
\* metadata from the count taken before, and the response.
FindTransactions ==
  /\ rpc = "find"
  /\ rreq.op \in LedgerOps
  /\ \E transactions \in FindTransactionsPages(rreq) :
       rres' = [status |-> 200,
                pagination |-> GeneratePaginationMetadata(PageOf(rreq),
                                  LimitOf(rreq), rpart.total),
                data |-> transactions]
  /\ rpc' = "done"
  /\ rpart' = NoResult
  /\ UNCHANGED <<rreq, inventoryVars, now, catalogVars, deleterVars, writerVars>>

\* updateInventory requests and the clock beside one ledger query.
QueryBodies ==
  {[variant |-> "v1", product |-> "p1", type |-> "stock_in", quantity |-> 1],
   [variant |-> "v1", product |-> "p1", type |-> "stock_out", quantity |-> 0 - 1],
   [variant |-> "v2", product |-> "p2", type |-> "stock_in", quantity |-> 1]}

\* The queries: every route asked page by page, and every route asked with
\* a type and a date range.
PagedQueries ==
  [op : {"all"}, id : {""}, type : {""}, startDate : {NoDate},
   endDate : {NoDate}, page : 0..MaxPage, limit : 0..MaxLimit,
   lowStock : {""}, stockStatus : {""}]
  \cup [op : {"variant"}, id : {"v1"}, type : {""}, startDate : {NoDate},
        endDate : {NoDate}, page : 1..MaxPage, limit : {1},
        lowStock : {""}, stockStatus : {""}]
FilteredQueries ==
  [op : {"product"}, id : {"p1"}, type : {"", "stock_in"},
   startDate : {NoDate, 1}, endDate : {NoDate, 0},
   page : {0}, limit : {0}, lowStock : {""}, stockStatus : {""}]
  \cup [op : {"all"}, id : {""}, type : {"stock_out"},
        startDate : {NoDate}, endDate : {NoDate, 0},
        page : {0}, limit : {0}, lowStock : {""}, stockStatus : {""}]
LedgerQueries == PagedQueries \cup FilteredQueries

InitQuery ==
  /\ initialQuantity = [v \in Variants |-> 1]
  /\ stock = initialQuantity
  /\ ledger = <<>>
  /\ pc = [r \in Requests |-> "idle"]
  /\ body = [r \in Requests |-> NoBody]
  /\ previousQuantity = [r \in Requests |-> 0]
  /\ newQuantity = [r \in Requests |-> 0]
  /\ readVersion = [r \in Requests |-> 0]
  /\ response = [r \in Requests |-> NoResponse]
  /\ InitOthers

NextQuery ==
  \/ \E r \in Requests, b \in QueryBodies : FindVariant(r, b)
  \/ \E r \in Requests : CreateTransaction(r)
  \/ \E r \in Requests : SaveVariant(r)
  \/ Tick
  \/ \E q \in LedgerQueries : CountTransactions(q)
  \/ FindTransactions

SpecQuery == InitQuery /\ [][NextQuery]_vars

\* ------------------------------------- stock levels and low-stock report
IsLowStockStrict(v) == stock[v] < variantInfo[v].lowStockThreshold

\* $expr: { $lte: ['$stockQuantity', '$lowStockThreshold'] }
IsLowStock(v) == stock[v] <= variantInfo[v].lowStockThreshold

LevelsFilterStatusFirst(q, v) ==
  IF q.stockStatus = "in_stock" THEN stock[v] > 0
  ELSE IF q.stockStatus = "out_of_stock" THEN stock[v] = 0
  ELSE q.lowStock = "true" => IsLowStock(v)

\* The filter object of getInventoryLevels applied to variant v: $expr for
\* lowStock === 'true' and stockQuantity for the stock status are two keys of
\* one filter.
LevelsFilter(q, v) ==
  /\ q.lowStock = "true" => IsLowStock(v)
  /\ q.stockStatus = "in_stock" => stock[v] > 0
  /\ q.stockStatus = "out_of_stock" => stock[v] = 0

MatchingVariants(q) == {v \in DOMAIN stock : LevelsFilter(q, v)}

\* A variant document as the views return it, its product populated.
VariantDoc(v) ==
  [id |-> v,
   product |-> IF VariantProduct[v] \in products THEN VariantProduct[v] ELSE "null",
   stockQuantity |-> stock[v],
   lowStockThreshold |-> variantInfo[v].lowStockThreshold]

\* Variant.find(filter).skip(skip).limit(limit).sort({ stockQuantity: 1 })
\*   .populate('product', 'name slug'): the pages the view can return.
FindVariantsPages(q) ==
  {[k \in 1..Len(page) |-> VariantDoc(page[k])] :
     page \in {SkipLimit(s, SkipOf(q), LimitOf(q)) :
                 s \in Orderings(MatchingVariants(q),
                                 [v \in MatchingVariants(q) |-> stock[v]])}}

\* getInventoryLevels up to its first await: the count under the filter.
CountVariants(q) ==
  /\ rpc = "idle"
  /\ q.op = "levels"
  /\ rreq' = q
  /\ rpart' = [total |-> Cardinality(MatchingVariants(q))]
  /\ rpc' = "find"
  /\ UNCHANGED <<rres, inventoryVars, now, catalogVars, deleterVars, writerVars>>

\* The rest of getInventoryLevels: the fetch, the pagination metadata, the
\* response.
FindVariants ==
  /\ rpc = "find"
  /\ rreq.op = "levels"
  /\ \E variants \in FindVariantsPages(rreq) :
       rres' = [status |-> 200,
                pagination |-> GeneratePaginationMetadata(PageOf(rreq),
                                  LimitOf(rreq), rpart.total),
                data |-> variants]
  /\ rpc' = "done"
  /\ rpart' = NoResult
  /\ UNCHANGED <<rreq, inventoryVars, now, catalogVars, deleterVars, writerVars>>

\* The request of a route without parameters.
ReadOf(op) == [NoRead EXCEPT !.op = op]

\* Object.values(groupedByProduct) for the sorted variants s: one group per
\* product, in the order the products first come up in s, each with its
\* variants in the order of s.
GroupedByProduct(s) ==
  LET productIds == {VariantProduct[s[k]] : k \in 1..Len(s)}
      First(p) == CHOOSE k \in 1..Len(s) :
                    /\ VariantProduct[s[k]] = p
                    /\ \A l \in 1..(k - 1) : VariantProduct[s[l]] # p
      order == CHOOSE o \in Orderings(productIds,
                                      [p \in productIds |-> First(p)]) : TRUE
  IN [g \in 1..Len(order) |->
        [product |-> order[g],
         variants |-> SelectSeq([k \in 1..Len(s) |-> VariantDoc(s[k])],
                                LAMBDA d : VariantProduct[d.id] = order[g])]]

\* getLowStockReport: one find, sorted by stockQuantity, then the grouping.
\* variant.product._id of a variant whose product is not stored is a
\* TypeError (the populated product is null): errorHandler answers 500.
GetLowStockReport ==
  /\ rpc = "idle"
  /\ rreq' = ReadOf("lowStockReport")
  /\ \E lowStockVariants \in Orderings({v \in DOMAIN stock : IsLowStock(v)},
                                       [v \in DOMAIN stock |-> stock[v]]) :
       IF \A k \in 1..Len(lowStockVariants) :
             VariantProduct[lowStockVariants[k]] \in products
       THEN rres' = [status |-> 200,
                     count |-> Len(lowStockVariants),
                     data |-> GroupedByProduct(lowStockVariants)]
       ELSE rres' = [status |-> 500]
  /\ rpc' = "done"
  /\ UNCHANGED <<rpart, inventoryVars, now, catalogVars, deleterVars, writerVars>>

\* The requests of the stock-level view.
LevelsQueries ==
  [op : {"levels"}, id : {""}, type : {""}, startDate : {NoDate},
   endDate : {NoDate}, page : 0..MaxPage, limit : 0..MaxLimit,
   lowStock : {"", "true", "false"},
   stockStatus : {"", "in_stock", "out_of_stock"}]

\* Three variants, two of them of product p1, with any stock and threshold;
\* one stock-level request or one low-stock report.
InitLevels ==
  /\ initialQuantity \in [AllVariants -> 0..MaxQ0]
  /\ stock = initialQuantity
  /\ ledger = <<>>
  /\ pc = [r \in Requests |-> "idle"]
  /\ body = [r \in Requests |-> NoBody]
  /\ previousQuantity = [r \in Requests |-> 0]
  /\ newQuantity = [r \in Requests |-> 0]
  /\ readVersion = [r \in Requests |-> 0]
  /\ response = [r \in Requests |-> NoResponse]
  /\ now = 0
  /\ InitCatalog
  /\ variantInfo \in [AllVariants -> [lowStockThreshold : 0..MaxThreshold,
                                      price : {1}, isActive : {TRUE}]]
  /\ InitReader
  /\ InitDeleter
  /\ InitWriter

NextLevels ==
  \/ \E q \in LevelsQueries : CountVariants(q)
  \/ FindVariants
  \/ GetLowStockReport

SpecLevels == InitLevels /\ [][NextLevels]_vars

\* ---------------------------------------------------------------- reports
\* $sum: the sum of the values of f over its domain.
RECURSIVE Sum(_)
Sum(f) ==
  IF DOMAIN f = {} THEN 0
  ELSE LET x == CHOOSE y \in DOMAIN f : TRUE
       IN f[x] + Sum([y \in DOMAIN f \ {x} |-> f[y]])

ActiveVariantsUnfiltered == DOMAIN stock

\* { $match: { isActive: true } }
ActiveVariants == {v \in DOMAIN stock : variantInfo[v].isActive}

\* The $group stage of the valuation report over the variants S.
ValueGroup(S) ==
  [totalValue |-> Sum([v \in S |-> stock[v] * variantInfo[v].price]),
   totalItems |-> Sum([v \in S |-> stock[v]]),
   variantCount |-> Cardinality(S)]

\* { $limit: 20 }: the top 20 products by value.
TopProducts == 20

\* getInventoryValueReport up to its first await: the aggregate over all
\* active variants (no document when there is none).
ValueSummary ==
  /\ rpc = "idle"
  /\ rreq' = ReadOf("inventoryValue")
  /\ rpart' = [inventoryValue |-> IF ActiveVariants = {} THEN <<>>
                                  ELSE <<ValueGroup(ActiveVariants)>>]
  /\ rpc' = "byProduct"
  /\ UNCHANGED <<rres, inventoryVars, now, catalogVars, deleterVars, writerVars>>

\* Its second await: the aggregate grouped by product, sorted by totalValue
\* descending, cut to the top 20.
ValueByProduct ==
  /\ rpc = "byProduct"
  /\ LET Of(p) == {v \in ActiveVariants : VariantProduct[v] = p}
         ids == {VariantProduct[v] : v \in ActiveVariants}
     IN \E s \in Orderings(ids, [p \in ids |->
                                    0 - ValueGroup(Of(p)).totalValue]) :
          rpart' = [inventoryValue |-> rpart.inventoryValue,
                    inventoryByProduct |->
                      SkipLimit([k \in 1..Len(s) |->
                                   [product |-> s[k],
                                    totalValue |-> ValueGroup(Of(s[k])).totalValue,
                                    totalItems |-> ValueGroup(Of(s[k])).totalItems,
                                    variantCount |-> ValueGroup(Of(s[k])).variantCount]],
                                0, TopProducts)]
  /\ rpc' = "populate"
  /\ UNCHANGED <<rreq, rres, inventoryVars, now, catalogVars, deleterVars, writerVars>>

\* Its third await, Product.populate, and the response.
ValuePopulate ==
  /\ rpc = "populate"
  /\ rres' = [status |-> 200,
              summary |-> IF rpart.inventoryValue = <<>>
                          THEN [totalValue |-> 0, totalItems |-> 0, variantCount |-> 0]
                          ELSE rpart.inventoryValue[1],
              byProduct |-> [k \in 1..Len(rpart.inventoryByProduct) |->
                               [rpart.inventoryByProduct[k] EXCEPT !.product =
                                  IF @ \in products THEN @ ELSE "null"]]]
  /\ rpc' = "done"
  /\ rpart' = NoResult
  /\ UNCHANGED <<rreq, inventoryVars, now, catalogVars, deleterVars, writerVars>>

\* new Date().setMonth(getMonth() - 1): a month back is 28 to 31 days back.
MonthLengths == 28..31

\* The date range of the movement report: startDate as given or a month
\* (of days days) ago, endDate or today moved to the end of its day.
DateRange(q, days) ==
  [startDate |-> IF q.startDate # NoDate THEN q.startDate
                 ELSE now - days * TicksPerDay,
   endDate |-> EndOfDay(IF q.endDate # NoDate THEN q.endDate ELSE now)]

\* { $match: { createdAt: { $gte: startDate, $lte: endDate } } }
MatchRange(range) ==
  {i \in 1..Len(ledger) : /\ ledger[i].createdAt >= range.startDate
                          /\ ledger[i].createdAt <= range.endDate}

\* The transaction types in ascending order of their names.
TypeOrder == <<"adjustment", "returned", "stock_in", "stock_out">>

\* $dateToString '%Y-%m-%d' of createdAt: the day of tick t.
Day(t) == t \div TicksPerDay

MovementGroupAbs(I) ==
  [totalQuantity |-> Sum([i \in I |-> Abs(ledger[i].quantity)]),
   transactionCount |-> Cardinality(I)]

\* The $group stage of the movement report over the entries I.
MovementGroup(I) ==
  [totalQuantity |-> Sum([i \in I |-> ledger[i].quantity]),
   transactionCount |-> Cardinality(I)]

\* The first aggregate: one record per type with entries in the range,
\* sorted by type.
MovementsByType(range) ==
  LET Of(t) == {i \in MatchRange(range) : ledger[i].type = t}
  IN SelectSeq([k \in 1..Len(TypeOrder) |->
                  [type |-> TypeOrder[k],
                   totalQuantity |-> MovementGroup(Of(TypeOrder[k])).totalQuantity,
                   transactionCount |-> MovementGroup(Of(TypeOrder[k])).transactionCount]],
               LAMBDA g : g.transactionCount > 0)

\* The second aggregate, grouped by day and type and sorted by both, as
\* formattedMovementsByDay lists it: one record per day with entries, with
\* the totals of each type of that day.
MovementsByDay(range) ==
  LET Of(d, t) == {i \in MatchRange(range) :
                     Day(ledger[i].createdAt) = d /\ ledger[i].type = t}
      TypesOf(d) == {t \in TransactionTypes : Of(d, t) # {}}
  IN SelectSeq([k \in 1..(Day(MaxClock) + 1) |->
                  [date |-> k - 1,
                   movements |-> [t \in TypesOf(k - 1) |-> MovementGroup(Of(k - 1, t))]]],
               LAMBDA r : DOMAIN r.movements # {})

\* getInventoryMovementsReport up to its first await.
MovementsSummary(q) ==
  /\ rpc = "idle"
  /\ q.op = "movements"
  /\ rreq' = q
  /\ \E days \in MonthLengths :
       rpart' = [dateRange |-> DateRange(q, days),
                 movementsByType |-> MovementsByType(DateRange(q, days))]
  /\ rpc' = "daily"
  /\ UNCHANGED <<rres, inventoryVars, now, catalogVars, deleterVars, writerVars>>

\* Its second await and the response.
MovementsDaily ==
  /\ rpc = "daily"
  /\ rres' = [status |-> 200,
              dateRange |-> rpart.dateRange,
              summary |-> rpart.movementsByType,
              daily |-> MovementsByDay(rpart.dateRange)]
  /\ rpc' = "done"
  /\ rpart' = NoResult
  /\ UNCHANGED <<rreq, inventoryVars, now, catalogVars, deleterVars, writerVars>>

\* getCatalogStats has nine awaits; what await k returns.
StatsAwaits == 9
NoStats == [awaited |-> 0, totalProducts |-> 0, activeProducts |-> 0,
            totalVariants |-> 0, activeVariants |-> 0, totalCategories |-> 0,
            activeCategories |-> 0, productsWithVariants |-> 0,
            productsByCategory |-> <<>>]

\* Product.aggregate: $unwind categories, $group with count, $sort by count
\* descending.
ProductsByCategory ==
  LET Count(c) == Cardinality({p \in products : c \in productInfo[p].categories})
      ids == UNION {productInfo[p].categories : p \in products}
  IN {[k \in 1..Len(s) |-> [category |-> s[k], count |-> Count(s[k])]] :
        s \in Orderings(ids, [c \in ids |-> 0 - Count(c)])}

\* The value await k adds to what the handler holds.
StatsAwait(st, k) ==
  CASE k = 1 -> {[st EXCEPT !.totalProducts = Cardinality(products)]}
    [] k = 2 -> {[st EXCEPT !.activeProducts =
                    Cardinality({p \in products : productInfo[p].isActive})]}
    [] k = 3 -> {[st EXCEPT !.totalVariants = Cardinality(DOMAIN stock)]}
    [] k = 4 -> {[st EXCEPT !.activeVariants = Cardinality(ActiveVariants)]}
    [] k = 5 -> {[st EXCEPT !.totalCategories = Cardinality(DOMAIN categoryInfo)]}
    [] k = 6 -> {[st EXCEPT !.activeCategories =
                    Cardinality({c \in DOMAIN categoryInfo : categoryInfo[c].isActive})]}
    [] k = 7 -> {[st EXCEPT !.productsWithVariants =
                    Cardinality({p \in products : productInfo[p].hasVariants})]}
    [] k = 8 -> {[st EXCEPT !.productsByCategory = byCategory] :
                   byCategory \in ProductsByCategory}
    [] OTHER -> {[st EXCEPT !.productsByCategory =
                    [j \in 1..Len(@) |->
                       [@[j] EXCEPT !.category =
                          IF @ \in DOMAIN categoryInfo THEN @ ELSE "null"]]]}

\* getCatalogStats up to its first await.
GetCatalogStats ==
  /\ rpc = "idle"
  /\ rreq' = ReadOf("catalogStats")
  /\ \E st \in StatsAwait(NoStats, 1) : rpart' = [st EXCEPT !.awaited = 1]
  /\ rpc' = "stats"
  /\ UNCHANGED <<rres, inventoryVars, now, catalogVars, deleterVars, writerVars>>

\* Its next await; after the last one (Category.populate) the response.
CatalogStatsAwait ==
  /\ rpc = "stats"
  /\ \E st \in StatsAwait(rpart, rpart.awaited + 1) :
       IF rpart.awaited + 1 < StatsAwaits
       THEN /\ rpart' = [st EXCEPT !.awaited = rpart.awaited + 1]
            /\ UNCHANGED <<rpc, rres>>
       ELSE /\ rres' = [status |-> 200,
                        products |-> [total |-> st.totalProducts,
                                      active |-> st.activeProducts,
                                      withVariants |-> st.productsWithVariants],
                        variants |-> [total |-> st.totalVariants,
                                      active |-> st.activeVariants],
                        categories |-> [total |-> st.totalCategories,
                                        active |-> st.activeCategories],
                        productsByCategory |-> st.productsByCategory]
            /\ rpc' = "done"
            /\ rpart' = NoResult
  /\ UNCHANGED <<rreq, inventoryVars, now, catalogVars, deleterVars, writerVars>>

\* ----------------------------------------------------------- deleteProduct
\* Missing product id.
MissingProduct == "p0"

\* deleteProduct up to its first await: Product.findById, 404 when there is
\* no such product.
DeleteFindProduct(id) ==
  /\ dpc = "idle"
  /\ dproduct' = id
  /\ IF id \in products
     THEN dpc' = "deleteMany" /\ UNCHANGED dres
     ELSE dpc' = "done" /\ dres' = ErrorHandler(404, "Product not found")
  /\ UNCHANGED <<inventoryVars, now, catalogVars, readerVars, writerVars>>

DeleteVariantsAndTransactions ==
  /\ dpc = "deleteMany"
  /\ stock' = [v \in {w \in DOMAIN stock : VariantProduct[w] # dproduct} |-> stock[v]]
  /\ ledger' = SelectSeq(ledger, LAMBDA e : e.product # dproduct)
  /\ dpc' = "remove"
  /\ UNCHANGED <<initialQuantity, pc, body, previousQuantity, newQuantity,
                 readVersion, response>>
  /\ UNCHANGED <<dproduct, dres, now, catalogVars, readerVars, writerVars>>

DeleteVariantsZeroing ==
  /\ dpc = "deleteMany"
  /\ stock' = [v \in DOMAIN stock |-> IF VariantProduct[v] = dproduct THEN 0 ELSE stock[v]]
  /\ dpc' = "remove"
  /\ UNCHANGED <<initialQuantity, ledger, pc, body, previousQuantity, newQuantity,
                 readVersion, response>>
  /\ UNCHANGED <<dproduct, dres, now, catalogVars, readerVars, writerVars>>

\* await Variant.deleteMany({ product: req.params.id }): the product's
\* variants are removed; the ledger is not touched.
DeleteVariants ==
  /\ dpc = "deleteMany"
  /\ stock' = [v \in {w \in DOMAIN stock : VariantProduct[w] # dproduct} |-> stock[v]]
  /\ dpc' = "remove"
  /\ UNCHANGED <<initialQuantity, ledger, pc, body, previousQuantity, newQuantity,
                 readVersion, response>>
  /\ UNCHANGED <<dproduct, dres, now, catalogVars, readerVars, writerVars>>

\* await product.remove() and the response.
RemoveProduct ==
  /\ dpc = "remove"
  /\ products' = products \ {dproduct}
  /\ dpc' = "done"
  /\ dres' = [status |-> 200, message |-> "Product and its variants deleted successfully"]
  /\ UNCHANGED <<productInfo, categoryInfo, variantInfo, productSku, variantSku>>
  /\ UNCHANGED <<dproduct, inventoryVars, now, readerVars, writerVars>>

\* ------------------------------------------------- all operations together
\* updateInventory requests, one deleteProduct and one query or report;
\* variant v2 is inactive.
ApiBodies ==
  {[variant |-> "v1", product |-> "p1", type |-> "stock_in", quantity |-> 1],
   [variant |-> "v2", product |-> "p2", type |-> "stock_out", quantity |-> 0 - 1]}

ApiQueries ==
  {[NoRead EXCEPT !.op = "product", !.id = "p1"],
   [NoRead EXCEPT !.op = "variant", !.id = "v1", !.type = "stock_in"],
   [NoRead EXCEPT !.op = "all", !.page = 1, !.limit = 1],
   [NoRead EXCEPT !.op = "levels", !.lowStock = "true"],
   [NoRead EXCEPT !.op = "levels", !.stockStatus = "in_stock"],
   [NoRead EXCEPT !.op = "movements"],
   [NoRead EXCEPT !.op = "movements", !.startDate = 1, !.endDate = 1]}

\* A step of a ledger query, of the stock-level view or of a report.
ReadStep ==
  \/ \E q \in ApiQueries : CountTransactions(q)
  \/ FindTransactions
  \/ \E q \in ApiQueries : CountVariants(q)
  \/ FindVariants
  \/ GetLowStockReport
  \/ ValueSummary
  \/ ValueByProduct
  \/ ValuePopulate
  \/ \E q \in ApiQueries : MovementsSummary(q)
  \/ MovementsDaily
  \/ GetCatalogStats
  \/ CatalogStatsAwait

InitApi ==
  /\ initialQuantity = [v \in Variants |-> 1]
  /\ stock = initialQuantity
  /\ ledger = <<>>
  /\ pc = [r \in Requests |-> "idle"]
  /\ body = [r \in Requests |-> NoBody]
  /\ previousQuantity = [r \in Requests |-> 0]
  /\ newQuantity = [r \in Requests |-> 0]
  /\ readVersion = [r \in Requests |-> 0]
  /\ response = [r \in Requests |-> NoResponse]
  /\ now = 0
  /\ InitCatalog
  /\ variantInfo = [v \in AllVariants |->
                      [lowStockThreshold |-> 1, price |-> MaxPrice,
                       isActive |-> v # "v2"]]
  /\ InitReader
  /\ InitDeleter
  /\ InitWriter

NextApi ==
  \/ \E r \in Requests, b \in ApiBodies : FindVariant(r, b)
  \/ \E r \in Requests : CreateTransaction(r)
  \/ \E r \in Requests : SaveVariant(r)
  \/ Tick
  \/ \E id \in {"p1", MissingProduct} : DeleteFindProduct(id)
  \/ DeleteVariants
  \/ RemoveProduct
  \/ ReadStep

SpecApi == InitApi /\ [][NextApi]_vars

\* ------------------------------------------------ the valuation report alone
\* No updateInventory request has arrived and the ledger is empty.
InitIdle ==
  /\ ledger = <<>>
  /\ pc = [r \in Requests |-> "idle"]
  /\ body = [r \in Requests |-> NoBody]
  /\ previousQuantity = [r \in Requests |-> 0]
  /\ newQuantity = [r \in Requests |-> 0]
  /\ readVersion = [r \in Requests |-> 0]
  /\ response = [r \in Requests |-> NoResponse]

\* Three variants, two of them of product p1, with any stock, any price and
\* active or not; one valuation report, nothing else running.
InitValue ==
  /\ initialQuantity \in [AllVariants -> 0..MaxQ0]
  /\ stock = initialQuantity
  /\ InitIdle
  /\ now = 0
  /\ InitCatalog
  /\ variantInfo \in [AllVariants -> [lowStockThreshold : {DefaultLowStockThreshold},
                                      price : 0..MaxPrice, isActive : BOOLEAN]]
  /\ InitReader
  /\ InitDeleter
  /\ InitWriter

NextValue ==
  \/ ValueSummary
  \/ ValueByProduct
  \/ ValuePopulate

SpecValue == InitValue /\ [][NextValue]_vars

\* ------------------------------------------- reports beside updateInventory
\* The requests of the movement report.
MovementQueries ==
  [op : {"movements"}, id : {""}, type : {""}, startDate : {NoDate, 1},
   endDate : {NoDate, 0}, page : {0}, limit : {0}, lowStock : {""},
   stockStatus : {""}]

\* Two active variants with one unit each and a price of MaxPrice.
InitReports ==
  /\ initialQuantity = [v \in Variants |-> 1]
  /\ stock = initialQuantity
  /\ InitIdle
  /\ now = 0
  /\ InitCatalog
  /\ variantInfo = [v \in AllVariants |->
                      [lowStockThreshold |-> DefaultLowStockThreshold,
                       price |-> MaxPrice, isActive |-> TRUE]]
  /\ InitReader
  /\ InitDeleter
  /\ InitWriter

\* updateInventory requests and the clock beside one valuation or movement
\* report.
NextReports ==
  \/ \E r \in Requests, b \in ApiBodies : FindVariant(r, b)
  \/ \E r \in Requests : CreateTransaction(r)
  \/ \E r \in Requests : SaveVariant(r)
  \/ Tick
  \/ ValueSummary
  \/ ValueByProduct
  \/ ValuePopulate
  \/ \E q \in MovementQueries : MovementsSummary(q)
  \/ MovementsDaily

SpecReports == InitReports /\ [][NextReports]_vars

\* ------------------------------------------ the movement report, no writes
\* updateInventory requests of the four types.
MovementBodies ==
  {[variant |-> "v1", product |-> "p1", type |-> "stock_in", quantity |-> 1],
   [variant |-> "v1", product |-> "p1", type |-> "stock_out", quantity |-> 0 - 1],
   [variant |-> "v2", product |-> "p2", type |-> "adjustment", quantity |-> 0],
   [variant |-> "v2", product |-> "p2", type |-> "returned", quantity |-> 1]}

\* The movement report is not between its two aggregates.
NoReportRunning == rpc # "daily"

\* updateInventory requests and the clock before and after one movement
\* report; no step of a request runs between the report's two aggregates.
NextMovements ==
  \/ NoReportRunning /\ \E r \in Requests, b \in MovementBodies : FindVariant(r, b)
  \/ NoReportRunning /\ \E r \in Requests : CreateTransaction(r)
  \/ NoReportRunning /\ \E r \in Requests : SaveVariant(r)
  \/ Tick
  \/ \E q \in MovementQueries : MovementsSummary(q)
  \/ MovementsDaily

SpecMovements == InitReports /\ [][NextMovements]_vars

\* ------------------------------------------------------- product routes
\* The stockQuantity a new variant is created with.
NewVariantStock == 1
\* The skus a client may send.
Skus == {"s1", "s2", "s3"}

\* res.json({success: true, ...}) without res.status: 200.
Ok == [status |-> 200, message |-> ""]

\* Mutant of UniqueIndexAccepts: no unique index on the collection.
UniqueIndexAbsent(stored, value) == TRUE

\* sku: {unique: true}: the collection's unique index refuses a document
\* whose sku another stored document has (E11000 duplicate key).
UniqueIndexAccepts(stored, value) == value \notin stored

\* The skus of the stored products other than p, and of the stored variants.
ProductSkus(p) == {productSku[o] : o \in products \ {p}}
VariantSkus == {variantSku[v] : v \in DOMAIN stock}

\* Catalog write request c ends with response res; its locals are gone.
WriteEnds(c, res) ==
  /\ wpc' = [wpc EXCEPT ![c] = "done"]
  /\ wres' = [wres EXCEPT ![c] = res]
  /\ wreq' = [wreq EXCEPT ![c] = NoWrite]
  /\ wproduct' = [wproduct EXCEPT ![c] = NoDocument]
\* Catalog write request c goes on to its next await.
WriteGoes(c, to) ==
  /\ wpc' = [wpc EXCEPT ![c] = to]
  /\ UNCHANGED <<wreq, wproduct, wres>>
WriteArrives(c) ==
  /\ wpc[c] = "idle"
  /\ \A d \in Clients : d < c => wpc[d] # "idle"

\* createProduct up to its second await: Product.findOne({sku}) resolves.
CreateProductFindSku(c, q) ==
  /\ WriteArrives(c)
  /\ q.op = "createProduct"
  /\ IF q.sku \in ProductSkus("")
     THEN WriteEnds(c, ErrorHandler(400, "Product with this SKU already exists"))
     ELSE /\ wpc' = [wpc EXCEPT ![c] = "create"]
          /\ wreq' = [wreq EXCEPT ![c] = q]
          /\ UNCHANGED <<wproduct, wres>>
  /\ UNCHANGED <<inventoryVars, now, catalogVars, readerVars, deleterVars>>

\* createProduct: await Product.create(req.body), then the 201 response.
\* hasVariants defaults to false, isActive to true.
CreateProduct(c) ==
  /\ wpc[c] = "create"
  /\ wreq[c].op = "createProduct"
  /\ IF ~UniqueIndexAccepts(ProductSkus(""), wreq[c].sku)
     THEN /\ WriteEnds(c, ErrorHandler(200, "E11000 duplicate key error"))
          /\ UNCHANGED <<products, productInfo, productSku>>
     ELSE /\ products' = products \cup {NewProductIds[c]}
          /\ productInfo' = (NewProductIds[c] :>
                               [isActive |-> TRUE,
                                hasVariants |-> (wreq[c].hasVariants = "true"),
                                categories |-> {}]) @@ productInfo
          /\ productSku' = (NewProductIds[c] :> wreq[c].sku) @@ productSku
          /\ WriteEnds(c, Success)
  /\ UNCHANGED <<categoryInfo, variantInfo, variantSku>>
  /\ UNCHANGED <<inventoryVars, now, readerVars, deleterVars>>

\* updateProduct up to its second await: Product.findById resolves.  The
\* validation rules require a sku, so req.body.sku is set; the conflict
\* query runs when it differs from the product's.
UpdateProductFind(c, q) ==
  /\ WriteArrives(c)
  /\ q.op = "updateProduct"
  /\ IF q.id \notin products
     THEN WriteEnds(c, ErrorHandler(404, "Product not found"))
     ELSE /\ wpc' = [wpc EXCEPT ![c] =
                       IF q.sku # productSku[q.id] THEN "findSku" ELSE "update"]
          /\ wreq' = [wreq EXCEPT ![c] = q]
          /\ UNCHANGED <<wproduct, wres>>
  /\ UNCHANGED <<inventoryVars, now, catalogVars, readerVars, deleterVars>>

\* updateProduct: await Product.findOne({sku, _id: {$ne: id}}) resolves.
UpdateProductFindSku(c) ==
  /\ wpc[c] = "findSku"
  /\ wreq[c].op = "updateProduct"
  /\ IF wreq[c].sku \in ProductSkus(wreq[c].id)
     THEN WriteEnds(c, ErrorHandler(400, "Product with this SKU already exists"))
     ELSE WriteGoes(c, "update")
  /\ UNCHANGED <<inventoryVars, now, catalogVars, readerVars, deleterVars>>

\* updateProduct: await Product.findByIdAndUpdate(id, req.body, ...), then
\* the response.  It sets the fields of the body; for a product deleted
\* meanwhile it returns null, and the response carries data: null.
UpdateProduct(c) ==
  /\ wpc[c] = "update"
  /\ wreq[c].op = "updateProduct"
  /\ LET id == wreq[c].id IN
     IF id \notin products
     THEN /\ WriteEnds(c, Ok)
          /\ UNCHANGED <<productInfo, productSku>>
     ELSE IF ~UniqueIndexAccepts(ProductSkus(id), wreq[c].sku)
     THEN /\ WriteEnds(c, ErrorHandler(200, "E11000 duplicate key error"))
          /\ UNCHANGED <<productInfo, productSku>>
     ELSE /\ productSku' = [productSku EXCEPT ![id] = wreq[c].sku]
          /\ productInfo' =
               IF wreq[c].hasVariants = "unset" THEN productInfo
               ELSE [productInfo EXCEPT ![id].hasVariants = (wreq[c].hasVariants = "true")]
          /\ WriteEnds(c, Ok)
  /\ UNCHANGED <<products, categoryInfo, variantInfo, variantSku>>
  /\ UNCHANGED <<inventoryVars, now, readerVars, deleterVars>>

\* addProductVariant up to its second await: Product.findById resolves.
AddVariantFindProduct(c, q) ==
  /\ WriteArrives(c)
  /\ q.op = "addProductVariant"
  /\ IF q.id \notin products
     THEN WriteEnds(c, ErrorHandler(404, "Product not found"))
     ELSE /\ wpc' = [wpc EXCEPT ![c] = "findSku"]
          /\ wreq' = [wreq EXCEPT ![c] = q]
          /\ wproduct' = [wproduct EXCEPT ![c] =
                            [NoDocument EXCEPT !.hasVariants = productInfo[q.id].hasVariants]]
          /\ UNCHANGED wres
  /\ UNCHANGED <<inventoryVars, now, catalogVars, readerVars, deleterVars>>

\* addProductVariant: await Variant.findOne({sku}) resolves.
AddVariantFindSku(c) ==
  /\ wpc[c] = "findSku"
  /\ wreq[c].op = "addProductVariant"
  /\ IF wreq[c].sku \in VariantSkus
     THEN WriteEnds(c, ErrorHandler(400, "Variant with this SKU already exists"))
     ELSE WriteGoes(c, "create")
  /\ UNCHANGED <<inventoryVars, now, catalogVars, readerVars, deleterVars>>

\* addProductVariant: req.body.product = req.params.id; await
\* Variant.create(req.body).  The product reference is stored as given.
\* Then the 201 response, unless the product read at the start was not
\* flagged: then the flag update is awaited first.
CreateVariant(c) ==
  /\ wpc[c] = "create"
  /\ wreq[c].op = "addProductVariant"
  /\ IF ~UniqueIndexAccepts(VariantSkus, wreq[c].sku)
     THEN /\ WriteEnds(c, ErrorHandler(200, "E11000 duplicate key error"))
          /\ UNCHANGED <<stock, variantInfo, variantSku>>
     ELSE /\ stock' = (NewVariantIds[c] :> NewVariantStock) @@ stock
          /\ variantInfo' = (NewVariantIds[c] :> DefaultInfo) @@ variantInfo
          /\ variantSku' = (NewVariantIds[c] :> wreq[c].sku) @@ variantSku
          /\ IF wproduct[c].hasVariants
             THEN WriteEnds(c, Success)
             ELSE WriteGoes(c, "flag")
  /\ UNCHANGED <<initialQuantity, ledger, pc, body, previousQuantity, newQuantity,
                 readVersion, response>>
  /\ UNCHANGED <<products, productInfo, categoryInfo, productSku>>
  /\ UNCHANGED <<now, readerVars, deleterVars>>

\* addProductVariant: await Product.findByIdAndUpdate(id, {hasVariants:
\* true}), then the 201 response.  Nothing is updated when the product is
\* gone.
FlagProduct(c) ==
  /\ wpc[c] = "flag"
  /\ productInfo' =
       IF wreq[c].id \in products
       THEN [productInfo EXCEPT ![wreq[c].id].hasVariants = TRUE]
       ELSE productInfo
  /\ WriteEnds(c, Success)
  /\ UNCHANGED <<products, categoryInfo, variantInfo, productSku, variantSku>>
  /\ UNCHANGED <<inventoryVars, now, readerVars, deleterVars>>


\* ------------------------------------------------------ skus under writes
\* Products p1 (sku s1) and p2 (sku s2, variant v2 with sku s2); p1 either
\* has variant v1 (sku s1) and is flagged, or was just created: no variant,
\* hasVariants false.  No request has arrived.
InitManage ==
  /\ initialQuantity = [v \in Variants |-> 1]
  /\ \E stored \in {Variants, {"v2"}} :
        /\ stock = [v \in stored |-> initialQuantity[v]]
        /\ productInfo = [InitialProducts EXCEPT !["p1"].hasVariants = "v1" \in stored]
  /\ products = Products
  /\ categoryInfo = InitialCategories
  /\ InitSkus
  /\ variantInfo = [v \in AllVariants |-> DefaultInfo]
  /\ now = 0
  /\ InitIdle
  /\ InitReader
  /\ InitDeleter
  /\ InitWriter

\* The requests of the product routes: a product to create, an update of a
\* stored product's sku, a variant to add to p1.
CreateRequests ==
  {[NoWrite EXCEPT !.op = "createProduct", !.sku = s] : s \in Skus}
UpdateRequests ==
  {[NoWrite EXCEPT !.op = "updateProduct", !.id = p, !.sku = s] :
      p \in Products, s \in Skus}
AddRequests ==
  {[NoWrite EXCEPT !.op = "addProductVariant", !.id = "p1", !.sku = s] : s \in Skus}

\* createProduct, updateProduct and addProductVariant requests, interleaved
\* at their awaits.
NextSku ==
  \/ \E c \in Clients, q \in CreateRequests : CreateProductFindSku(c, q)
  \/ \E c \in Clients : CreateProduct(c)
  \/ \E c \in Clients, q \in UpdateRequests : UpdateProductFind(c, q)
  \/ \E c \in Clients : UpdateProductFindSku(c)
  \/ \E c \in Clients : UpdateProduct(c)
  \/ \E c \in Clients, q \in AddRequests : AddVariantFindProduct(c, q)
  \/ \E c \in Clients : AddVariantFindSku(c)
  \/ \E c \in Clients : CreateVariant(c)
  \/ \E c \in Clients : FlagProduct(c)

SpecSku == InitManage /\ [][NextSku]_vars


\* --------------------------------------- variants added while deleting
\* addProductVariant requests on p1, one deleteProduct of p1 and one
\* low-stock report, interleaved at their awaits.
NextOwner ==
  \/ \E c \in Clients, q \in AddRequests : AddVariantFindProduct(c, q)
  \/ \E c \in Clients : AddVariantFindSku(c)
  \/ \E c \in Clients : CreateVariant(c)
  \/ \E c \in Clients : FlagProduct(c)
  \/ DeleteFindProduct("p1")
  \/ DeleteVariants
  \/ RemoveProduct
  \/ GetLowStockReport

SpecOwner == InitManage /\ [][NextOwner]_vars


\* ------------------------------------------------- the hasVariants flag
\* updateProduct requests on p1 that keep or change its sku and leave out,
\* clear or set hasVariants (the validation rules take any boolean).
FlagRequests ==
  {[NoWrite EXCEPT !.op = "updateProduct", !.id = "p1", !.sku = s, !.hasVariants = h] :
      s \in {"s1", "s3"}, h \in {"unset", "false", "true"}}

\* addProductVariant and updateProduct requests on p1 and one catalog
\* statistics request, interleaved at their awaits.
NextFlag ==
  \/ \E c \in Clients, q \in AddRequests : AddVariantFindProduct(c, q)
  \/ \E c \in Clients : AddVariantFindSku(c)
  \/ \E c \in Clients : CreateVariant(c)
  \/ \E c \in Clients : FlagProduct(c)
  \/ \E c \in Clients, q \in FlagRequests : UpdateProductFind(c, q)
  \/ \E c \in Clients : UpdateProductFindSku(c)
  \/ \E c \in Clients : UpdateProduct(c)
  \/ GetCatalogStats
  \/ CatalogStatsAwait

SpecFlag == InitManage /\ [][NextFlag]_vars


\* ------------------------------------------------------ category routes
\* The names a client may send.
Names == {"n1", "n2", "n3"}

\* Category.find({parent: id}).
Subcategories(id) == {s \in DOMAIN categoryInfo : categoryInfo[s].parent = id}
\* Category.findOne({name, _id: {$ne: id}}) finds one.
NameTaken(name, id) ==
  \E o \in DOMAIN categoryInfo \ {id} : categoryInfo[o].name = name
\* req.body.parent is truthy.
ParentGiven(q) == q.parent \notin {"unset", "null"}

\* createCategory up to its second await: Category.findOne({name}) resolves.
CreateCategoryFindName(c, q) ==
  /\ WriteArrives(c)
  /\ q.op = "createCategory"
  /\ IF NameTaken(q.name, "")
     THEN WriteEnds(c, ErrorHandler(400, "Category with this name already exists"))
     ELSE /\ wpc' = [wpc EXCEPT ![c] = "create"]
          /\ wreq' = [wreq EXCEPT ![c] = q]
          /\ UNCHANGED <<wproduct, wres>>
  /\ UNCHANGED <<inventoryVars, now, catalogVars, readerVars, deleterVars>>

\* createCategory: await Category.create(req.body), then the 201 response.
\* The parent is stored as given.  When another request stored the name
\* meanwhile, the insert goes through or is refused, as the Category
\* schema (not part of the sources) has it.
CreateCategory(c) ==
  /\ wpc[c] = "create"
  /\ wreq[c].op = "createCategory"
  /\ \/ /\ categoryInfo' =
             (NewCategoryIds[c] :>
                [isActive |-> TRUE, name |-> wreq[c].name,
                 parent |-> IF ParentGiven(wreq[c]) THEN wreq[c].parent ELSE "null"])
             @@ categoryInfo
        /\ WriteEnds(c, Success)
     \/ /\ NameTaken(wreq[c].name, "")
        /\ UNCHANGED categoryInfo
        /\ WriteEnds(c, ErrorHandler(200, "E11000 duplicate key error"))
  /\ UNCHANGED <<products, productInfo, variantInfo, productSku, variantSku>>
  /\ UNCHANGED <<inventoryVars, now, readerVars, deleterVars>>

\* Where updateCategory goes after the parent checks: the name query when
\* the name differs from the one findById read, else the update.
AfterParentChecks(name, read) == IF name # read THEN "findName" ELSE "update"

\* updateCategory up to its second await: Category.findById resolves; with a
\* parent in the body, the comparison with req.params.id.
UpdateCategoryFind(c, q) ==
  /\ WriteArrives(c)
  /\ q.op = "updateCategory"
  /\ IF q.id \notin DOMAIN categoryInfo
     THEN WriteEnds(c, ErrorHandler(404, "Category not found"))
     ELSE IF ParentGiven(q) /\ q.parent = q.id
     THEN WriteEnds(c, ErrorHandler(400, "Category cannot be its own parent"))
     ELSE /\ wpc' = [wpc EXCEPT ![c] =
                       IF ParentGiven(q) THEN "findSubs"
                       ELSE AfterParentChecks(q.name, categoryInfo[q.id].name)]
          /\ wreq' = [wreq EXCEPT ![c] = q]
          /\ wproduct' = [wproduct EXCEPT ![c] =
                            [NoDocument EXCEPT !.name = categoryInfo[q.id].name]]
          /\ UNCHANGED wres
  /\ UNCHANGED <<inventoryVars, now, catalogVars, readerVars, deleterVars>>

\* updateCategory: await Category.find({parent: id}) resolves; then
\* subcategories.some(sub => sub._id.toString() === req.body.parent.toString()).
UpdateCategoryFindSubs(c) ==
  /\ wpc[c] = "findSubs"
  /\ IF wreq[c].parent \in Subcategories(wreq[c].id)
     THEN WriteEnds(c, ErrorHandler(400, "Cannot set a subcategory as parent"))
     ELSE WriteGoes(c, AfterParentChecks(wreq[c].name, wproduct[c].name))
  /\ UNCHANGED <<inventoryVars, now, catalogVars, readerVars, deleterVars>>

\* updateCategory: await Category.findOne({name, _id: {$ne: id}}) resolves.
UpdateCategoryFindName(c) ==
  /\ wpc[c] = "findName"
  /\ IF NameTaken(wreq[c].name, wreq[c].id)
     THEN WriteEnds(c, ErrorHandler(400, "Category with this name already exists"))
     ELSE WriteGoes(c, "update")
  /\ UNCHANGED <<inventoryVars, now, catalogVars, readerVars, deleterVars>>

\* updateCategory: await Category.findByIdAndUpdate(id, req.body, ...), then
\* the response (data: null for a category deleted meanwhile).
UpdateCategory(c) ==
  /\ wpc[c] = "update"
  /\ wreq[c].op = "updateCategory"
  /\ LET id == wreq[c].id IN
     categoryInfo' =
       IF id \notin DOMAIN categoryInfo THEN categoryInfo
       ELSE [categoryInfo EXCEPT
               ![id].name = wreq[c].name,
               ![id].parent = IF wreq[c].parent = "unset" THEN @ ELSE wreq[c].parent]
  /\ WriteEnds(c, Ok)
  /\ UNCHANGED <<products, productInfo, variantInfo, productSku, variantSku>>
  /\ UNCHANGED <<inventoryVars, now, readerVars, deleterVars>>

\* deleteCategory up to its second await: Category.findById resolves.
DeleteCategoryFind(c, q) ==
  /\ WriteArrives(c)
  /\ q.op = "deleteCategory"
  /\ IF q.id \notin DOMAIN categoryInfo
     THEN WriteEnds(c, ErrorHandler(404, "Category not found"))
     ELSE /\ wpc' = [wpc EXCEPT ![c] = "exists"]
          /\ wreq' = [wreq EXCEPT ![c] = q]
          /\ UNCHANGED <<wproduct, wres>>
  /\ UNCHANGED <<inventoryVars, now, catalogVars, readerVars, deleterVars>>

\* deleteCategory: await Category.exists({parent: id}) resolves.
DeleteCategoryExists(c) ==
  /\ wpc[c] = "exists"
  /\ IF Subcategories(wreq[c].id) # {}
     THEN WriteEnds(c, ErrorHandler(400,
            "Cannot delete category with subcategories. Update or remove subcategories first."))
     ELSE WriteGoes(c, "remove")
  /\ UNCHANGED <<inventoryVars, now, catalogVars, readerVars, deleterVars>>

\* deleteCategory: await category.remove(), then the response.
RemoveCategory(c) ==
  /\ wpc[c] = "remove"
  /\ categoryInfo' = [o \in DOMAIN categoryInfo \ {wreq[c].id} |-> categoryInfo[o]]
  /\ WriteEnds(c, [status |-> 200, message |-> "Category deleted successfully"])
  /\ UNCHANGED <<products, productInfo, variantInfo, productSku, variantSku>>
  /\ UNCHANGED <<inventoryVars, now, readerVars, deleterVars>>

\* The requests of the category routes; no category has the id c0.
CategoryIds == Categories \cup {"c3", "c0"}
CategoryCreates ==
  {[NoWrite EXCEPT !.op = "createCategory", !.name = n, !.parent = p] :
      n \in Names, p \in {"unset", "c1", "c2"}}
CategoryUpdates ==
  {[NoWrite EXCEPT !.op = "updateCategory", !.id = i, !.name = n, !.parent = p] :
      i \in CategoryIds, n \in Names, p \in {"unset", "null", "c1", "c2", "c3"}}
CategoryDeletes ==
  {[NoWrite EXCEPT !.op = "deleteCategory", !.id = i] : i \in CategoryIds}

\* No catalog write request is between two of its awaits.
NoWriteRunning == \A d \in Clients : wpc[d] \in {"idle", "done"}

\* createCategory, updateCategory and deleteCategory requests, one after
\* the other.
NextCategory ==
  \/ \E c \in Clients, q \in CategoryCreates :
        NoWriteRunning /\ CreateCategoryFindName(c, q)
  \/ \E c \in Clients : CreateCategory(c)
  \/ \E c \in Clients, q \in CategoryUpdates :
        NoWriteRunning /\ UpdateCategoryFind(c, q)
  \/ \E c \in Clients : UpdateCategoryFindSubs(c)
  \/ \E c \in Clients : UpdateCategoryFindName(c)
  \/ \E c \in Clients : UpdateCategory(c)
  \/ \E c \in Clients, q \in CategoryDeletes :
        NoWriteRunning /\ DeleteCategoryFind(c, q)
  \/ \E c \in Clients : DeleteCategoryExists(c)
  \/ \E c \in Clients : RemoveCategory(c)

SpecCategory == InitManage /\ [][NextCategory]_vars


\* ------------------------------------------------------------------ claims
\* The entry of request r (a request creates at most one).
EntryOf(r) == ledger[CHOOSE i \in EntriesOf(r) : TRUE]

\* The request found its variant and the variant belongs to the product.
Addressed(b) == b.variant \in Variants /\ VariantProduct[b.variant] = b.product

\* C1: in every reachable state every variant's stored stockQuantity is >= 0.
StockNeverNegative == \A v \in Variants : stock[v] >= 0

\* C1 witness: two requests ran, one committed and the other tried to take
\* the stock below zero and was stopped at save().
StockNeverNegativeWitness ==
  \E r, s \in DOMAIN pc :
    /\ Committed(r)
    /\ pc[s] = "done"
    /\ response[s].message = "Stock quantity cannot be negative"

\* C2: no two requests on the same variant read the same stored
\* stockQuantity (no commit on the variant lies between their reads) and
\* both commit.
NoTwoCommitsFromOneRead ==
  \A r, s \in DOMAIN pc :
    (r # s /\ Committed(r) /\ Committed(s) /\ EntryOf(r).variant = EntryOf(s).variant)
      => readVersion[r] # readVersion[s]

\* C3: when the N stock_out requests of one unit against a stock of N have
\* all ended, all N succeeded, the stock is 0 and the ledger holds N entries.
StockOutAllSucceed ==
  (\A r \in DOMAIN pc : pc[r] = "done") =>
    /\ \A r \in DOMAIN pc : response[r].status = 201
    /\ stock["v1"] = 0
    /\ Cardinality(EntriesOfVariant("v1")) = initialQuantity["v1"]

\* The delta an entry stands for when the ledger is replayed.
SignedDelta(e) ==
  CASE e.type = "stock_in"   -> e.quantity
    [] e.type = "returned"   -> e.quantity
    [] e.type = "stock_out"  -> 0 - Abs(e.quantity)
    [] e.type = "adjustment" -> e.quantity

RECURSIVE ReplayFrom(_, _, _)
ReplayFrom(v, i, quantity) ==
  IF i > Len(ledger) THEN quantity
  ELSE ReplayFrom(v, i + 1,
         IF ledger[i].variant = v THEN quantity + SignedDelta(ledger[i]) ELSE quantity)
Replay(v) == ReplayFrom(v, 1, initialQuantity[v])

\* C4: with no request in flight and every request so far answered 201, each
\* variant's stockQuantity is its initial quantity plus its entries' deltas.
LedgerReplaysToStock ==
  (\A r \in DOMAIN pc : pc[r] = "idle" \/ Committed(r)) =>
    \A v \in Variants : stock[v] = Replay(v)

\* C5: a request's ledger entry is stored exactly when its stock update is.
LedgerAndStockTogether ==
  \A r \in DOMAIN pc : (EntriesOf(r) # {}) <=> Committed(r)

\* C6: a request answered with an error left no ledger entry (and, writing
\* the stock only on the way to 201, no stock change).
ErrorLeavesNoTrace ==
  \A r \in DOMAIN pc :
    (pc[r] = "done" /\ response[r].status # 201) => EntriesOf(r) = {}

\* C7: a stock_out whose previousQuantity - |quantity| is negative ends at
\* once with 400 "insufficient stock", with the ledger and the stock as they
\* were.
InsufficientStockRejected ==
  [][\A r \in DOMAIN pc, b \in Bodies :
       (/\ FindVariant(r, b)
        /\ Addressed(b)
        /\ b.type = "stock_out"
        /\ stock[b.variant] - Abs(b.quantity) < 0)
       => /\ pc'[r] = "done"
          /\ response'[r] = [status |-> 400, message |-> "Insufficient stock quantity"]
          /\ ledger' = ledger
          /\ stock' = stock]_vars

\* C7 witness: a stock_out was refused for insufficient stock.
InsufficientStockWitness ==
  \E r \in DOMAIN pc :
    /\ response[r].message = "Insufficient stock quantity"
    /\ EntriesOf(r) = {}
    /\ stock = initialQuantity

\* C8: an adjustment to a target >= 0 succeeds and stores the target; an
\* adjustment to a negative target ends with 400 and no ledger entry.
AdjustmentSetsOrRejects ==
  [][\A r \in DOMAIN pc :
       /\ \A b \in Bodies :
            (FindVariant(r, b) /\ Addressed(b) /\ b.type = "adjustment" /\ b.quantity < 0)
              => (pc'[r] = "done" /\ response'[r].status = 400)
       /\ (SaveVariant(r) /\ body[r].type = "adjustment" /\ body[r].quantity >= 0)
              => /\ response'[r].status = 201
                 /\ stock'[body[r].variant] = body[r].quantity]_vars

PositiveStockOutAccepted ==
  [][\A r \in DOMAIN pc, b \in Bodies :
       (/\ Addressed(b)
        /\ b.type = "stock_out"
        /\ b.quantity > 0
        /\ b.quantity <= stock[b.variant])
       => ~RejectInvalid(r, b)]_vars

\* C10 amended: the route takes a stock_out only with a quantity <= 0; a
\* positive one never reaches updateInventory.  A stock_out of -m that
\* succeeds records quantity -m and newQuantity p - m for the stock p it
\* read, and leaves the stock at p - m when the stock is still p at save.
NegativeStockOutAccepted ==
  [][\A r \in DOMAIN pc :
       /\ \A b \in Bodies :
            (b.type = "stock_out" /\ b.quantity > 0) => ~FindVariant(r, b)
       /\ (SaveVariant(r) /\ body[r].type = "stock_out" /\ response'[r].status = 201) =>
            LET e == EntryOf(r)
                p == previousQuantity[r]
                m == 0 - body[r].quantity
            IN /\ m >= 0 /\ m <= p
               /\ e.quantity = 0 - m
               /\ e.newQuantity = p - m
               /\ stock[e.variant] = p => stock'[e.variant] = p - m]_vars

\* C10 witness: a stock_out of -1 committed and took one unit off the stock.
NegativeStockOutWitness ==
  \E r \in DOMAIN pc :
    /\ Committed(r)
    /\ EntryOf(r).type = "stock_out"
    /\ EntryOf(r).quantity = 0 - 1
    /\ stock[EntryOf(r).variant] = initialQuantity[EntryOf(r).variant] - 1

RECURSIVE EntriesFrom(_, _)
EntriesFrom(v, i) ==
  IF i > Len(ledger) THEN <<>>
  ELSE IF ledger[i].variant = v THEN <<ledger[i]>> \o EntriesFrom(v, i + 1)
  ELSE EntriesFrom(v, i + 1)

\* C12: the entries of a variant chain: each one's previousQuantity is the
\* newQuantity of the entry created just before it.
LedgerChains ==
  \A v \in Variants :
    LET es == EntriesFrom(v, 1)
    IN \A k \in 2..Len(es) : es[k].previousQuantity = es[k - 1].newQuantity

\* C13: the ledger is append-only: every step of every operation
\* (updateInventory, the queries and reports, deleteProduct, also of the
\* product the entries belong to) keeps every existing entry, with all its
\* fields, at its place.
LedgerAppendOnly ==
  [][/\ Len(ledger') >= Len(ledger)
     /\ SubSeq(ledger', 1, Len(ledger)) = ledger]_vars

\* deleteProduct has succeeded on a product that has a ledger entry.
LedgerAppendOnlyWitness ==
  /\ dpc = "done"
  /\ dres.status = 200
  /\ dproduct \notin products
  /\ \E i \in 1..Len(ledger) : ledger[i].product = dproduct

\* C14: a request for a variant id that is not stored ends at once with 404
\* "Variant not found", with the ledger and every variant as they were.
MissingVariantRejected ==
  [][\A r \in DOMAIN pc, b \in Bodies :
       (FindVariant(r, b) /\ b.variant \notin DOMAIN stock)
       => /\ pc'[r] = "done"
          /\ response'[r] = [status |-> 404, message |-> "Variant not found"]
          /\ ledger' = ledger
          /\ stock' = stock]_vars

\* C14 witness: a request was answered 404 and the stores are as at the start.
MissingVariantWitness ==
  \E r \in DOMAIN pc :
    /\ response[r].status = 404
    /\ ledger = <<>>
    /\ stock = initialQuantity

\* C15: a request naming another product than the variant's ends at once
\* with 400, with the ledger and the stock as they were; and every ledger
\* entry carries the product of its variant.
MismatchedProductRejected ==
  [][/\ \A r \in DOMAIN pc, b \in Bodies :
          (/\ FindVariant(r, b)
           /\ b.variant \in DOMAIN stock
           /\ VariantProduct[b.variant] # b.product)
          => /\ pc'[r] = "done"
             /\ response'[r].status = 400
             /\ response'[r].message = "Variant does not belong to the specified product"
             /\ ledger' = ledger
             /\ stock' = stock
     /\ \A i \in 1..Len(ledger') :
          ledger'[i].product = VariantProduct[ledger'[i].variant]]_vars

\* C15 witness: one request was refused for the product mismatch and another
\* stored an entry.
MismatchedProductWitness ==
  \E r \in DOMAIN pc :
    /\ response[r].message = "Variant does not belong to the specified product"
    /\ EntriesOf(r) = {}
    /\ Len(ledger) = 1

\* C16: the ledger queries, the stock-level view and the four reports are
\* read-only: none of their steps, in any state and between the steps of any
\* other operation, changes a stockQuantity or the ledger; and the
\* stockQuantity of a variant that stays stored changes only in the save of
\* an updateInventory request that is answered 201.
ReadsAreReadOnly ==
  [][/\ ReadStep => (stock' = stock /\ ledger' = ledger)
     /\ \A v \in DOMAIN stock \cap DOMAIN stock' :
          stock'[v] # stock[v]
            => \E r \in DOMAIN pc : SaveVariant(r) /\ response'[r].status = 201]_vars

\* A query over all entries has ended whose count ran before and whose fetch
\* ran after the insert of an updateInventory request that has committed.
ReadsAreReadOnlyWitness ==
  /\ rpc = "done"
  /\ rreq.op = "all"
  /\ rres.pagination.totalItems = 0
  /\ Len(rres.data) = 1
  /\ \E r \in DOMAIN pc : Committed(r)
  /\ stock # initialQuantity

\* C17: for every ledger query the pagination metadata agrees with the
\* filter and with the page returned: totalItems is the number of entries
\* matching the filter, totalPages is ceil(totalItems / limit), hasNextPage
\* holds exactly when entries remain after this page, hasPrevPage exactly
\* when page > 1, and the page holds the entries at positions
\* (page-1)*limit+1 .. page*limit of the filtered sequence; also when an
\* updateInventory commits between the count and the fetch.
PaginationConsistent ==
  [][FindTransactions =>
       LET n == CountDocuments(rreq)
           page == PageOf(rreq)
           limit == LimitOf(rreq)
           m == rres'.pagination
       IN /\ m.totalItems = n
          /\ m.totalPages * limit >= n
          /\ (m.totalPages - 1) * limit < n
          /\ m.hasNextPage <=> page * limit < n
          /\ m.hasPrevPage <=> page > 1
          /\ Len(rres'.data) =
               Cardinality({k \in (page - 1) * limit + 1 .. page * limit : k <= n})]_vars

\* What C18 calls a match of entry e with the filter of query q.
InRange(q, e) ==
  /\ q.op = "product" => e.product = q.id
  /\ q.op = "variant" => e.variant = q.id
  /\ q.type # "" => e.type = q.type
  /\ q.startDate # NoDate => q.startDate <= e.createdAt
  /\ q.endDate # NoDate =>
       e.createdAt \div TicksPerDay <= q.endDate \div TicksPerDay

\* C18: a ledger query answers with success and returns only stored entries
\* that match its filter (product or variant, type, createdAt from startDate
\* to the end of the day of endDate, both inclusive), none twice, newest
\* first; a page that covers the matching entries holds all of them, and it
\* is empty when nothing matches.
QueryReturnsMatching ==
  [][FindTransactions =>
       LET data == rres'.data
           n == Cardinality({i \in 1..Len(ledger) : InRange(rreq, ledger[i])})
       IN /\ rres'.status = 200
          /\ \A k \in 1..Len(data) :
               \E i \in 1..Len(ledger) :
                  ledger[i].req = data[k].req /\ InRange(rreq, ledger[i])
          /\ \A k, l \in 1..Len(data) :
               k < l => /\ data[k].req # data[l].req
                        /\ data[k].createdAt >= data[l].createdAt
          /\ (SkipOf(rreq) = 0 /\ LimitOf(rreq) >= n) => Len(data) = n
          /\ n = 0 => data = <<>>]_vars

\* A query of product p1 up to day 0 has returned the entry created on the
\* last tick of that day before the one created on its first tick, while the
\* query's endDate is the first tick.
QueryReturnsMatchingWitness ==
  /\ rpc = "done"
  /\ rreq.op = "product"
  /\ rreq.endDate = 0
  /\ Len(rres.data) = 2
  /\ rres.data[1].createdAt = 1
  /\ rres.data[2].createdAt = 0

\* C19: getInventoryLevels returns exactly the variants that satisfy every
\* requested filter together (lowStock=true: stockQuantity <=
\* lowStockThreshold; in_stock: stockQuantity > 0; out_of_stock:
\* stockQuantity = 0; both given: the intersection), each once, by ascending
\* stockQuantity; a page that covers them holds all of them.
LevelsReturnsFiltered ==
  [][FindVariants =>
       LET data == rres'.data
           Keeps(v) ==
             /\ rreq.lowStock = "true" =>
                  stock[v] <= variantInfo[v].lowStockThreshold
             /\ rreq.stockStatus = "in_stock" => stock[v] > 0
             /\ rreq.stockStatus = "out_of_stock" => stock[v] = 0
           kept == {v \in DOMAIN stock : Keeps(v)}
       IN /\ \A k \in 1..Len(data) :
               /\ data[k].id \in kept
               /\ data[k].stockQuantity = stock[data[k].id]
          /\ \A k, l \in 1..Len(data) :
               k < l => /\ data[k].id # data[l].id
                        /\ data[k].stockQuantity <= data[l].stockQuantity
          /\ (SkipOf(rreq) = 0 /\ LimitOf(rreq) >= Cardinality(kept)) =>
               {data[k].id : k \in 1..Len(data)} = kept]_vars

\* The view asked for lowStock=true and in_stock has returned one variant,
\* while a second variant is low but out of stock and a third is in stock
\* but not low.
LevelsReturnsFilteredWitness ==
  /\ rpc = "done"
  /\ rreq.op = "levels"
  /\ rreq.lowStock = "true"
  /\ rreq.stockStatus = "in_stock"
  /\ Len(rres.data) = 1
  /\ \E v \in DOMAIN stock : stock[v] = 0
  /\ \E v \in DOMAIN stock : stock[v] > variantInfo[v].lowStockThreshold

\* C20: the low-stock report holds a variant iff its stockQuantity <=
\* lowStockThreshold, each such variant once, in the group of its product,
\* one group per product, the variants of a group by ascending
\* stockQuantity, and count is the number of variants over all groups.
LowStockReportExact ==
  [][GetLowStockReport =>
       LET data == rres'.data
           places == {<<g, k>> \in (1..Len(data)) \X (1..Cardinality(DOMAIN stock)) :
                        k <= Len(data[g].variants)}
           At(pl) == data[pl[1]].variants[pl[2]]
       IN /\ rres'.status = 200
          /\ \A v \in DOMAIN stock :
               (stock[v] <= variantInfo[v].lowStockThreshold)
                 <=> \E pl \in places : At(pl).id = v
          /\ \A pl, pm \in places : At(pl).id = At(pm).id => pl = pm
          /\ \A pl \in places :
               /\ data[pl[1]].product = VariantProduct[At(pl).id]
               /\ At(pl).stockQuantity = stock[At(pl).id]
          /\ \A g, h \in 1..Len(data) : data[g].product = data[h].product => g = h
          /\ \A pl, pm \in places :
               (pl[1] = pm[1] /\ pl[2] < pm[2])
                 => At(pl).stockQuantity <= At(pm).stockQuantity
          /\ rres'.count = Cardinality(places)]_vars

\* The report holds a group of two variants of different stock, one of them
\* exactly at its threshold, while a variant one unit above its threshold is
\* stored.
LowStockReportWitness ==
  /\ rpc = "done"
  /\ rreq.op = "lowStockReport"
  /\ rres.status = 200
  /\ \E g \in 1..Len(rres.data) :
       /\ Len(rres.data[g].variants) = 2
       /\ rres.data[g].variants[1].stockQuantity < rres.data[g].variants[2].stockQuantity
       /\ rres.data[g].variants[2].stockQuantity = rres.data[g].variants[2].lowStockThreshold
  /\ \E v \in DOMAIN stock : stock[v] = variantInfo[v].lowStockThreshold + 1

\* The totals C21 names, over the stored active variants of the set S.
ActiveTotals(S) ==
  LET A == {v \in S \cap DOMAIN stock : variantInfo[v].isActive}
  IN [totalValue |-> Sum([v \in A |-> stock[v] * variantInfo[v].price]),
      totalItems |-> Sum([v \in A |-> stock[v]]),
      variantCount |-> Cardinality(A)]

\* C21: the valuation report's summary holds totalValue = the sum of
\* stockQuantity * price, totalItems = the sum of stockQuantity and
\* variantCount = the number, all over the active variants (all 0 when there
\* is none); byProduct holds at most 20 products, each product that has an
\* active variant once, with the same three totals over its own active
\* variants, in descending totalValue.
ValueReportTotals ==
  (rpc = "done" /\ rreq.op = "inventoryValue") =>
    LET by == rres.byProduct
    IN /\ rres.status = 200
       /\ rres.summary = ActiveTotals(AllVariants)
       /\ Len(by) <= TopProducts
       /\ \A k \in 1..Len(by) :
            /\ by[k].totalValue = ActiveTotals({v \in AllVariants : VariantProduct[v] = by[k].product}).totalValue
            /\ by[k].totalItems = ActiveTotals({v \in AllVariants : VariantProduct[v] = by[k].product}).totalItems
            /\ by[k].variantCount = ActiveTotals({v \in AllVariants : VariantProduct[v] = by[k].product}).variantCount
            /\ by[k].variantCount > 0
       /\ \A k, l \in 1..Len(by) :
            k < l => /\ by[k].product # by[l].product
                     /\ by[k].totalValue >= by[l].totalValue
       /\ \A v \in DOMAIN stock :
            variantInfo[v].isActive
              => \E k \in 1..Len(by) : by[k].product = VariantProduct[v]

\* A report is out with two products of different value, while an inactive
\* variant with stock and a price is stored.
ValueReportWitness ==
  /\ rpc = "done"
  /\ rreq.op = "inventoryValue"
  /\ Len(rres.byProduct) = 2
  /\ rres.byProduct[1].totalValue > rres.byProduct[2].totalValue
  /\ rres.byProduct[1].variantCount = 1
  /\ \E v \in DOMAIN stock :
       ~variantInfo[v].isActive /\ stock[v] * variantInfo[v].price > 0

\* C22: each report reflects one consistent snapshot, also when an
\* updateInventory commits during it: in the valuation report the summary's
\* totalValue and totalItems are the sums of the byProduct totalValue and
\* totalItems; in the movement report the summary's transactionCount and
\* totalQuantity of every type are the sums of that type's daily ones.
ReportsConsistent ==
  [][/\ ValuePopulate =>
          LET by == rres'.byProduct
          IN /\ rres'.summary.totalValue = Sum([k \in 1..Len(by) |-> by[k].totalValue])
             /\ rres'.summary.totalItems = Sum([k \in 1..Len(by) |-> by[k].totalItems])
     /\ MovementsDaily =>
          \A t \in TransactionTypes :
             LET of == {k \in 1..Len(rres'.summary) : rres'.summary[k].type = t}
                 days == {d \in 1..Len(rres'.daily) : t \in DOMAIN rres'.daily[d].movements}
             IN /\ Sum([k \in of |-> rres'.summary[k].transactionCount])
                     = Sum([d \in days |-> rres'.daily[d].movements[t].transactionCount])
                /\ Sum([k \in of |-> rres'.summary[k].totalQuantity])
                     = Sum([d \in days |-> rres'.daily[d].movements[t].totalQuantity])]_vars

\* The place of each type in the ascending order of the type names.
TypeRank == [t \in TransactionTypes |->
               CASE t = "adjustment" -> 1 [] t = "returned" -> 2
                 [] t = "stock_in" -> 3 [] OTHER -> 4]

\* C23: with no write during it, the movement report over its date range
\* lists, in ascending type name, each type that has ledger entries in the
\* range, once, with transactionCount = the number of those entries and
\* totalQuantity = the sum of their stored quantity; the daily view has one
\* record per day that has entries in the range, which maps each type with
\* entries on that day to the same two totals over that day.
MovementReportTotals ==
  [][MovementsDaily =>
       LET range == rres'.dateRange
           summary == rres'.summary
           daily == rres'.daily
           In(t) == {i \in 1..Len(ledger) :
                       /\ ledger[i].type = t
                       /\ ledger[i].createdAt >= range.startDate
                       /\ ledger[i].createdAt <= range.endDate}
           OnDay(t, d) == {i \in In(t) : ledger[i].createdAt \div TicksPerDay = d}
       IN /\ rres'.status = 200
          /\ \A t \in TransactionTypes :
               In(t) # {} <=> \E k \in 1..Len(summary) : summary[k].type = t
          /\ \A k \in 1..Len(summary) :
               /\ summary[k].transactionCount = Cardinality(In(summary[k].type))
               /\ summary[k].totalQuantity =
                    Sum([i \in In(summary[k].type) |-> ledger[i].quantity])
          /\ \A k, l \in 1..Len(summary) :
               k < l => TypeRank[summary[k].type] < TypeRank[summary[l].type]
          /\ \A d \in 0..(MaxClock \div TicksPerDay) :
               (\E t \in TransactionTypes : OnDay(t, d) # {})
                 <=> \E k \in 1..Len(daily) : daily[k].date = d
          /\ \A k, l \in 1..Len(daily) : daily[k].date = daily[l].date => k = l
          /\ \A k \in 1..Len(daily), t \in TransactionTypes :
               /\ t \in DOMAIN daily[k].movements <=> OnDay(t, daily[k].date) # {}
               /\ t \in DOMAIN daily[k].movements =>
                    /\ daily[k].movements[t].transactionCount =
                         Cardinality(OnDay(t, daily[k].date))
                    /\ daily[k].movements[t].totalQuantity =
                         Sum([i \in OnDay(t, daily[k].date) |-> ledger[i].quantity])]_vars

\* A report is out that lists two types, one of them with a negative total,
\* over two days.
MovementReportWitness ==
  /\ rpc = "done"
  /\ rreq.op = "movements"
  /\ Len(rres.summary) = 2
  /\ \E k \in 1..2 : rres.summary[k].totalQuantity < 0
  /\ Len(rres.daily) = 2

StockMovesWithType ==
  [][\A r \in Requests :
       (SaveVariant(r) /\ response'[r].status = 201) =>
          LET b == body[r] IN
          /\ b.type \in {"stock_in", "returned"} =>
                stock'[b.variant] >= stock[b.variant]
          /\ b.type = "stock_out" => stock'[b.variant] <= stock[b.variant]]_vars


\* C26: updateInventory checks its preconditions in a fixed order and a
\* request answers with the error of the first one it violates: a missing
\* variant gives 404 whatever the product and the type; a variant of another
\* product gives the 400 of the mismatch whatever the type; a type outside
\* the four gives the 400 of the type before any stock is compared.  In
\* each case the request ends there: no ledger entry, no variant changed.
FirstViolation(b) ==
  IF b.variant \notin DOMAIN stock THEN ErrorHandler(404, "Variant not found")
  ELSE IF VariantProduct[b.variant] # b.product
    THEN ErrorHandler(400, "Variant does not belong to the specified product")
  ELSE IF b.type \notin TransactionTypes
    THEN ErrorHandler(400, "Invalid transaction type")
  ELSE NoResponse
PreconditionOrder ==
  /\ [][\A r \in Requests, b \in Bodies :
          (UpdateInventoryFind(r, b) /\ FirstViolation(b) # NoResponse) =>
             /\ response'[r] = FirstViolation(b)
             /\ pc'[r] = "done"
             /\ ledger' = ledger
             /\ stock' = stock]_vars
  /\ [](\A r \in Requests :
          response[r].message \in {"Variant not found",
                                   "Variant does not belong to the specified product",
                                   "Invalid transaction type"}
             => EntriesOf(r) = {})
\* One request got the 404 of the missing variant, another the 400 of the
\* switch's default branch.
PreconditionOrderWitness ==
  \E r, s \in Requests :
     /\ response[r] = ErrorHandler(404, "Variant not found")
     /\ response[s] = ErrorHandler(400, "Invalid transaction type")


\* C25: under any interleaving of createProduct, updateProduct and
\* addProductVariant requests no two stored products share a sku and no two
\* stored variants share a sku; a create (of a product or of a variant)
\* whose sku a stored document of the collection already has is answered
\* with an error and stores nothing.
SkuUnique ==
  /\ [](/\ \A p, o \in products : productSku[p] = productSku[o] => p = o
        /\ \A v, w \in DOMAIN stock : variantSku[v] = variantSku[w] => v = w)
  /\ [][\A c \in Clients :
          /\ (\E q \in CreateRequests :
                 CreateProductFindSku(c, q) /\ q.sku \in ProductSkus("")) =>
                wres'[c].status = 400 /\ products' = products
          /\ (CreateProduct(c) /\ wreq[c].sku \in ProductSkus("")) =>
                wres'[c].status = 500 /\ products' = products
          /\ ((AddVariantFindSku(c) \/ CreateVariant(c)) /\ wreq[c].sku \in VariantSkus) =>
                /\ wres'[c].status \in {400, 500}
                /\ DOMAIN stock' = DOMAIN stock]_vars
\* Two creates raced with the same new sku: one is stored, the index
\* refused the other.
SkuUniqueWitness ==
  \E c, d \in Clients :
     /\ wres[c] = Success
     /\ wres[d] = ErrorHandler(200, "E11000 duplicate key error")
     /\ Cardinality(products) + Cardinality(DOMAIN stock) = 5


\* C28: whatever the interleaving of addProductVariant and deleteProduct
\* requests on a product, every stored variant refers to a stored product,
\* and the low-stock report, which reads each variant's product, is
\* answered 200.
VariantsHaveProduct ==
  /\ \A v \in DOMAIN stock : VariantProduct[v] \in products
  /\ rpc = "done" => rres.status = 200


\* C30: in every state reached by addProductVariant, updateProduct and
\* catalog statistics requests, a stored product that owns a stored variant
\* has hasVariants = true.
OwnersAreFlagged ==
  \A p \in products :
     (\E v \in DOMAIN stock : VariantProduct[v] = p) => productInfo[p].hasVariants


\* C29: after any sequence of createCategory, updateCategory and
\* deleteCategory requests the parent relation has no cycle: following
\* parent from a stored category never comes back to it.
ParentOf(c) == IF c \in DOMAIN categoryInfo THEN categoryInfo[c].parent ELSE "null"
RECURSIVE Ancestor(_, _)
Ancestor(c, depth) == IF depth = 0 THEN c ELSE ParentOf(Ancestor(c, depth - 1))
NoParentCycle ==
  \A c \in DOMAIN categoryInfo :
     \A depth \in 1..Cardinality(DOMAIN categoryInfo) : Ancestor(c, depth) # c


TypeOK ==
  /\ DOMAIN stock \subseteq DOMAIN VariantProduct
  /\ \A v \in DOMAIN stock : stock[v] \in Int
  /\ \A r \in DOMAIN pc : pc[r] \in {"idle", "create", "save", "done"}
  /\ \A r \in DOMAIN pc : response[r].status \in {0, 201, 400, 404, 500}
  /\ now \in 0..MaxClock
  /\ products \subseteq Products \cup {NewProductIds[c] : c \in Clients}
  /\ \A c \in Clients :
        /\ wpc[c] \in {"idle", "create", "findSku", "update", "flag", "findSubs",
                       "findName", "exists", "remove", "done"}
        /\ wres[c].status \in {0, 200, 201, 400, 404, 500}
  /\ rpc \in {"idle", "find", "byProduct", "populate", "daily", "stats", "done"}
  /\ rres.status \in {0, 200, 500}
  /\ dpc \in {"idle", "deleteMany", "remove", "done"}
  /\ dres.status \in {0, 200, 404}
====
